---- MODULE Spec2Model ----
(***************************************************************************)
(* Proof-of-work subsystem of bitbi: compact-target arithmetic, the        *)
(* difficulty retarget engine and the PoW range check (src/src/pow.cpp).   *)
(*                                                                         *)
(* A 256-bit unsigned integer (arith_uint256 / uint256 read little-endian) *)
(* is a sequence of WIDTH bytes, least significant byte first.  A compact  *)
(* target (uint32_t nBits) is the record [nSize, nWord]: nSize is the top  *)
(* byte (nBits >> 24) and nWord the low 24 bits (nBits & 0x00ffffff, sign  *)
(* bit 0x00800000 included), so that equality of records is equality of    *)
(* the 32-bit words.                                                       *)
(***************************************************************************)
EXTENDS Integers, Sequences, FiniteSets, TLC

VARIABLES params, chain, pc, op, args, ret

\* the verifier pool g_RxWorkVerifier and the threads that call PowHash
VARIABLES m_nCaches, mCacheStack, ctx, th, calls, crashed, dtor

powVars == <<params, chain, pc, op, args, ret>>
poolVars == <<m_nCaches, mCacheStack, ctx, th, calls, crashed, dtor>>

\* one RxWorkMiner, the threads that call Mine on it, what ShutdownRequested()
\* returns now, and the engine's hash of the header under each nonce
VARIABLES mVm, mDataset, mBlockHeader, mMutex, mt, shutdown, oracle, mCrashed

minerVars == <<mVm, mDataset, mBlockHeader, mMutex, mt, shutdown, oracle, mCrashed>>

\* the private constructor RxWorkMiner(key, block): where it is, its local
\* cache, the item count of the dataset, its loop variable startItem, the
\* workers it started, and how often each dataset item has been initialised
VARIABLES cpc, cache, datasetItemCount, startItem, threads, initialized

ctorVars == <<cpc, cache, datasetItemCount, startItem, threads, initialized>>

\* one ThreadPool: the constructor that built it (defaultCtor) and the
\* thread count it was given or read from hardware_concurrency()
\* (numThreads); its members workers, tasks, exceptions and stop; the
\* threads that use it (cl); and what has been enqueued and run so far:
\* the number of tasks accepted, those of them that throw, and how often
\* each task has been run
VARIABLES numThreads, defaultCtor, workers, tasks, exceptions, stop, cl,
          nAccepted, nCalls, throwing, executed

tpVars == <<numThreads, defaultCtor, workers, tasks, exceptions, stop, cl,
            nAccepted, nCalls, throwing, executed>>

vars == <<powVars, poolVars, minerVars, ctorVars, tpVars>>

\* ------------------------------------------------------------------------
\* Bounds of the model
\* ------------------------------------------------------------------------

\* blocks per retarget window used by the model's chains
\* (nPowTargetSpacing is nPowTargetTimespan \div Interval)
Interval == 3

\* highest block height the model builds or passes as an argument
MaxHeight == 6

\* threads that call PowHash on the pool
NThreads == 2

\* PowHash calls the threads make, all together
MaxCalls == 3

\* largest std::thread::hardware_concurrency() of the machines tried
MaxCores == 2

\* nonces of which the engine's hash is known to one Mine call
MaxTries == 3

\* randomx_dataset_item_count() is at most this
MaxItems == 10

\* worker threads of a ThreadPool, and calls of enqueue on it
MaxWorkers == 2
MaxTasks == 2

\* byte width of a uint256 / arith_uint256
WIDTH == 32

\* ------------------------------------------------------------------------
\* arith_uint256: 256-bit unsigned arithmetic
\* ------------------------------------------------------------------------

Zero == [i \in 1..WIDTH |-> 0]

\* arith_uint256(uint64_t), for values below 2^31
FromInt(n) == [i \in 1..WIDTH |-> IF i <= 4 THEN (n \div (256 ^ (i - 1))) % 256 ELSE 0]

\* operator<<= by a whole number of bytes; bits shifted past bit 255 are lost
ShiftLeftBytes(x, k) == [i \in 1..WIDTH |-> IF i - k >= 1 THEN x[i - k] ELSE 0]

\* operator>>= by a whole number of bytes
ShiftRightBytes(x, k) == [i \in 1..WIDTH |-> IF i + k <= WIDTH THEN x[i + k] ELSE 0]

RECURSIVE MulFrom(_, _, _, _)
MulFrom(x, m, i, carry) ==
    IF i > WIDTH THEN <<>>
    ELSE LET t == x[i] * m + carry
         IN  <<t % 256>> \o MulFrom(x, m, i + 1, t \div 256)

\* operator*=(uint32_t): product modulo 2^256 (the final carry is dropped)
MulSmall(x, m) == MulFrom(x, m, 1, 0)

\* long division from the most significant byte down; the quotient's bytes
\* come out most significant first
RECURSIVE DivFrom(_, _, _, _)
DivFrom(x, d, i, rem) ==
    IF i < 1 THEN <<>>
    ELSE LET t == rem * 256 + x[i]
         IN  <<t \div d>> \o DivFrom(x, d, i - 1, t % d)

\* operator/=: floor of the quotient
DivSmall(x, d) ==
    LET q == DivFrom(x, d, WIDTH, 0)
    IN  [i \in 1..WIDTH |-> q[WIDTH + 1 - i]]

RECURSIVE CompareFrom(_, _, _)
CompareFrom(a, b, i) ==
    IF i < 1 THEN 0
    ELSE IF a[i] < b[i] THEN -1
    ELSE IF a[i] > b[i] THEN 1
    ELSE CompareFrom(a, b, i - 1)

\* base_uint::CompareTo: -1, 0 or 1
CompareTo(a, b) == CompareFrom(a, b, WIDTH)

Gt(a, b) == CompareTo(a, b) = 1
Lt(a, b) == CompareTo(a, b) = -1
LtEq(a, b) == CompareTo(a, b) # 1

RECURSIVE TopByte(_, _)
TopByte(x, i) == IF i < 1 THEN 0 ELSE IF x[i] # 0 THEN i ELSE TopByte(x, i - 1)

\* (bits() + 7) / 8: number of significant bytes
ByteSize(x) == TopByte(x, WIDTH)

\* GetLow64() of a value that fits three bytes
Low24(x) == x[1] + 256 * x[2] + 65536 * x[3]

\* arith_uint256::SetCompact: the decoded value with the negative and
\* overflow flags
SetCompact(nCompact) ==
    LET nSize == nCompact.nSize
        nWord0 == nCompact.nWord % 8388608
        nWord == IF nSize <= 3 THEN nWord0 \div (256 ^ (3 - nSize)) ELSE nWord0
    IN  [value |-> IF nSize <= 3 THEN FromInt(nWord)
                   ELSE ShiftLeftBytes(FromInt(nWord), nSize - 3),
         fNegative |-> nWord # 0 /\ nCompact.nWord >= 8388608,
         fOverflow |-> nWord # 0 /\ (\/ nSize > 34
                                     \/ (nWord > 255 /\ nSize > 33)
                                     \/ (nWord > 65535 /\ nSize > 32))]

\* arith_uint256::GetCompact(fNegative = false)
GetCompact(x) ==
    LET nSize == ByteSize(x)
        nCompact == IF nSize <= 3 THEN Low24(x) * (256 ^ (3 - nSize))
                    ELSE Low24(ShiftRightBytes(x, nSize - 3))
    IN  IF nCompact >= 8388608
        THEN [nSize |-> nSize + 1, nWord |-> nCompact \div 256]
        ELSE [nSize |-> nSize, nWord |-> nCompact]

\* Consensus::Params::DifficultyAdjustmentInterval
DifficultyAdjustmentInterval(p) == p.nPowTargetTimespan \div p.nPowTargetSpacing

\* ------------------------------------------------------------------------
\* pow.cpp
\* ------------------------------------------------------------------------

\* CheckProofOfWork without the test of fNegative
CheckProofOfWork_NoNegative(hash, nBits, p) ==
    LET d == SetCompact(nBits)
        bnTarget == d.value
    IN  IF bnTarget = Zero \/ d.fOverflow \/ Gt(bnTarget, p.powLimit)
        THEN FALSE
        ELSE IF Gt(hash, bnTarget) THEN FALSE
        ELSE TRUE

\* CheckProofOfWork rejecting a hash equal to the target (>= for >)
CheckProofOfWork_Strict(hash, nBits, p) ==
    LET d == SetCompact(nBits)
        bnTarget == d.value
    IN  IF d.fNegative \/ bnTarget = Zero \/ d.fOverflow \/ Gt(bnTarget, p.powLimit)
        THEN FALSE
        ELSE IF ~Lt(hash, bnTarget) THEN FALSE
        ELSE TRUE

\* CheckProofOfWork(hash, nBits, params)
CheckProofOfWork(hash, nBits, p) ==
    LET d == SetCompact(nBits)
        bnTarget == d.value
    IN  IF d.fNegative \/ bnTarget = Zero \/ d.fOverflow \/ Gt(bnTarget, p.powLimit)
        THEN FALSE
        ELSE IF Gt(hash, bnTarget) THEN FALSE
        ELSE TRUE

\* the factor with the 2048 scaling left out of the numerator
ScaledTimespan_Unscaled(nActualTimespan, nPowTargetTimespan) ==
    nActualTimespan \div nPowTargetTimespan

\* nActualTimespan*2048/params.nPowTargetTimespan in int64_t arithmetic, for
\* nActualTimespan >= 0 (the product is split so that no intermediate value
\* leaves the model checker's integer range; the value is the exact quotient)
ScaledTimespan(nActualTimespan, nPowTargetTimespan) ==
    LET q == nActualTimespan \div nPowTargetTimespan
        r == nActualTimespan % nPowTargetTimespan
        t == r * 32
    IN  q * 2048 + (t \div nPowTargetTimespan) * 64
                 + ((t % nPowTargetTimespan) * 64) \div nPowTargetTimespan

\* the limit adjustment step without its upper clamp
LimitAdjustmentStep_NoCeiling(nActualTimespan, p) ==
    LET lo == p.nPowTargetTimespan \div 4
    IN  IF nActualTimespan < lo THEN lo ELSE nActualTimespan

\* the two clamps of nActualTimespan (pow.cpp, "Limit adjustment step")
LimitAdjustmentStep(nActualTimespan, p) ==
    LET lo == p.nPowTargetTimespan \div 4
        hi == p.nPowTargetTimespan * 4
        a1 == IF nActualTimespan < lo THEN lo ELSE nActualTimespan
    IN  IF a1 > hi THEN hi ELSE a1

\* the retarget without the clamp to powLimit
ClampToPowLimit_Off(bnNew, bnPowLimit) == bnNew

\* if (bnNew > bnPowLimit) bnNew = bnPowLimit
ClampToPowLimit(bnNew, bnPowLimit) == IF Gt(bnNew, bnPowLimit) THEN bnPowLimit ELSE bnNew

\* CalculateNextWorkRequired(pindexLast, nFirstBlockTime, params)
CalculateNextWorkRequired(pindexLast, nFirstBlockTime, p) ==
    IF p.fPowNoRetargeting THEN pindexLast.nBits
    ELSE LET nActualTimespan == LimitAdjustmentStep(pindexLast.nTime - nFirstBlockTime, p)
             bnPowLimit == p.powLimit
             bnSet == SetCompact(pindexLast.nBits).value
             bnMul == MulSmall(bnSet, ScaledTimespan(nActualTimespan, p.nPowTargetTimespan))
             bnDiv == DivSmall(bnMul, 2048)
             bnNew == ClampToPowLimit(bnDiv, bnPowLimit)
         IN  GetCompact(bnNew)

\* the body of PermittedDifficultyTransition at a retarget boundary: the new
\* target against the rounded largest and smallest targets
RetargetPermitted(p, old_nbits, new_nbits) ==
    LET smallest_timespan == p.nPowTargetTimespan \div 4
        largest_timespan == p.nPowTargetTimespan * 4
        pow_limit == p.powLimit
        observed_new_target == SetCompact(new_nbits).value
        largest0 == DivSmall(MulSmall(SetCompact(old_nbits).value, largest_timespan),
                             p.nPowTargetTimespan)
        largest_difficulty_target ==
            IF Gt(largest0, pow_limit) THEN pow_limit ELSE largest0
        maximum_new_target == SetCompact(GetCompact(largest_difficulty_target)).value
        smallest0 == DivSmall(MulSmall(SetCompact(old_nbits).value, smallest_timespan),
                              p.nPowTargetTimespan)
        smallest_difficulty_target ==
            IF Gt(smallest0, pow_limit) THEN pow_limit ELSE smallest0
        minimum_new_target == SetCompact(GetCompact(smallest_difficulty_target)).value
    IN  IF Lt(maximum_new_target, observed_new_target) THEN FALSE
        ELSE IF Gt(minimum_new_target, observed_new_target) THEN FALSE
        ELSE TRUE

\* PermittedDifficultyTransition without the early return for
\* fPowAllowMinDifficultyBlocks
PermittedDifficultyTransition_NoEarlyReturn(p, height, old_nbits, new_nbits) ==
    IF height % DifficultyAdjustmentInterval(p) = 0
    THEN RetargetPermitted(p, old_nbits, new_nbits)
    ELSE IF old_nbits # new_nbits THEN FALSE
    ELSE TRUE

\* PermittedDifficultyTransition comparing the decoded targets, not the
\* compact words, away from a retarget boundary
PermittedDifficultyTransition_ByTarget(p, height, old_nbits, new_nbits) ==
    IF p.fPowAllowMinDifficultyBlocks THEN TRUE
    ELSE IF height % DifficultyAdjustmentInterval(p) = 0
    THEN RetargetPermitted(p, old_nbits, new_nbits)
    ELSE IF SetCompact(old_nbits).value # SetCompact(new_nbits).value THEN FALSE
    ELSE TRUE

\* PermittedDifficultyTransition(params, height, old_nbits, new_nbits)
PermittedDifficultyTransition(p, height, old_nbits, new_nbits) ==
    IF p.fPowAllowMinDifficultyBlocks THEN TRUE
    ELSE IF height % DifficultyAdjustmentInterval(p) = 0
    THEN RetargetPermitted(p, old_nbits, new_nbits)
    ELSE IF old_nbits # new_nbits THEN FALSE
    ELSE TRUE

\* CBlockIndex of the block at height h of the chain c (c[1] is the genesis
\* block); GetAncestor(h) of any later block
BlockAt(c, h) == c[h + 1]

\* the walk back stopping only at a block that is not a min-difficulty
\* block (the test of the retarget height left out)
RECURSIVE LastNonMinDifficulty_IgnoreHeight(_, _, _, _)
LastNonMinDifficulty_IgnoreHeight(c, h, p, nProofOfWorkLimit) ==
    IF /\ h > 0
       /\ BlockAt(c, h).nBits = nProofOfWorkLimit
    THEN LastNonMinDifficulty_IgnoreHeight(c, h - 1, p, nProofOfWorkLimit)
    ELSE BlockAt(c, h).nBits

\* the loop "Return the last non-special-min-difficulty-rules-block":
\* pindex->pprev is null exactly at the genesis block
RECURSIVE LastNonMinDifficulty(_, _, _, _)
LastNonMinDifficulty(c, h, p, nProofOfWorkLimit) ==
    IF /\ h > 0
       /\ BlockAt(c, h).nHeight % DifficultyAdjustmentInterval(p) # 0
       /\ BlockAt(c, h).nBits = nProofOfWorkLimit
    THEN LastNonMinDifficulty(c, h - 1, p, nProofOfWorkLimit)
    ELSE BlockAt(c, h).nBits

\* the first block taken one whole interval back
HeightFirst_WholeInterval(pindexLast, p) ==
    pindexLast.nHeight - DifficultyAdjustmentInterval(p)

\* nHeightFirst: "Go back by what we want to be 14 days worth of blocks"
HeightFirst(pindexLast, p) ==
    pindexLast.nHeight - (DifficultyAdjustmentInterval(p) - 1)

\* the special-min-difficulty test taken against the whole timespan
TooLate_Timespan(blockTime, pindexLast, p) ==
    blockTime > pindexLast.nTime + p.nPowTargetTimespan * 2

\* "If the new block's timestamp is more than 2* 10 minutes then allow
\* mining of a min-difficulty block"
TooLate(blockTime, pindexLast, p) ==
    blockTime > pindexLast.nTime + p.nPowTargetSpacing * 2

\* GetNextWorkRequired(pindexLast, pblock, params), pindexLast the tip of the
\* chain c and blockTime the candidate header's time; a failed assert aborts
\* the process
GetNextWorkRequired(c, blockTime, p) ==
    LET pindexLast == BlockAt(c, Len(c) - 1)
        nProofOfWorkLimit == GetCompact(p.powLimit)
    IN  IF (pindexLast.nHeight + 1) % DifficultyAdjustmentInterval(p) # 0
        THEN IF p.fPowAllowMinDifficultyBlocks
             THEN IF TooLate(blockTime, pindexLast, p)
                  THEN [aborted |-> FALSE, nBits |-> nProofOfWorkLimit]
                  ELSE [aborted |-> FALSE,
                        nBits |-> LastNonMinDifficulty(c, pindexLast.nHeight, p,
                                                       nProofOfWorkLimit)]
             ELSE [aborted |-> FALSE, nBits |-> pindexLast.nBits]
        ELSE LET nHeightFirst == HeightFirst(pindexLast, p)
             IN  IF nHeightFirst < 0
                 THEN [aborted |-> TRUE, nBits |-> pindexLast.nBits]
                 ELSE [aborted |-> FALSE,
                       nBits |-> CalculateNextWorkRequired(
                                     pindexLast, BlockAt(c, nHeightFirst).nTime, p)]

\* ------------------------------------------------------------------------
\* The verifier pool: VerifierCtx, SyncStack, RxWorkVerifier3
\* ------------------------------------------------------------------------

\* a randomx_cache* or randomx_vm*: nullptr, or the engine object together
\* with the key its cache was initialised with
NullPtr == [null |-> TRUE, key |-> 0]
Built(key) == [null |-> FALSE, key |-> key]

\* what randomx_alloc_cache and randomx_create_vm do in one reinitialize:
\* both succeed, the cache allocation returns nullptr, or the cache is
\* there and the vm creation returns nullptr
AllocOutcomes == {"ok", "no_cache", "no_vm"}

\* the engine is rebuilt only on the first use of a context
NeedsReinit_OnlyWhenEmpty(c, key) == c.m_vm.null

\* the engine is rebuilt at every call
NeedsReinit_Always(c, key) == TRUE

\* "if (key != m_key)"
NeedsReinit(c, key) == key # c.m_key

\* VerifierCtx::reinitialize(key).  The results of randomx_alloc_cache and
\* randomx_create_vm are not tested: randomx_init_cache on a null cache
\* reads through the null pointer, which ends the process (an assertion of
\* the library in a debug build, a fault on the read otherwise).
reinitialize(c, key, alloc) ==
    IF NeedsReinit(c, key)
    THEN CASE alloc = "ok" ->
                [ctx |-> [m_key |-> key, m_vm |-> Built(key), m_cache |-> Built(key)],
                 crashed |-> FALSE]
           [] alloc = "no_cache" ->
                [ctx |-> [c EXCEPT !.m_vm = NullPtr, !.m_cache = NullPtr],
                 crashed |-> TRUE]
           [] alloc = "no_vm" ->
                [ctx |-> [m_key |-> key, m_vm |-> NullPtr, m_cache |-> Built(key)],
                 crashed |-> FALSE]
    ELSE [ctx |-> c, crashed |-> FALSE]

\* VerifierCtx(key): the members start as nullptr, nullptr and uint256(),
\* then reinitialize(key)
VerifierCtx(key, alloc) ==
    reinitialize([m_key |-> 0, m_vm |-> NullPtr, m_cache |-> NullPtr], key, alloc)

\* const uint64_t ONE_CACHE_SIZE = 256*1024*1024
ONE_CACHE_SIZE == 268435456

Min(a, b) == IF a < b THEN a ELSE b

\* m_nCaches of a machine with that many cores and free bytes
PoolSize(cores, freeMemory) == Min(1 * cores, freeMemory \div ONE_CACHE_SIZE)

\* top() that gives the oldest element
Top_Oldest(stack) == stack[1]

\* the top of the std::stack is the end of the sequence
Top(stack) == stack[Len(stack)]

\* pop() that returns the top and leaves it on the stack
StackAfterPop_Keep(stack) == stack

\* "m_stack.pop()"
StackAfterPop(stack) == SubSeq(stack, 1, Len(stack) - 1)

\* "m_stack.push(value)"
StackAfterPush(stack, value) == Append(stack, value)

\* push() without the notification
Notified_None(waiters) == {}

\* "cond.notify_one()": any one of the threads blocked in cond.wait
Notified(waiters) == waiters

\* randomx_calculate_hash on a vm whose cache holds key: the engine's hash
\* is a function of the key and the input bytes and of nothing else
RxHash(key, input) == <<key, input>>
NoHash == <<>>

\* a thread outside PowHash
IdleThread == [pc |-> "idle", key |-> 0, input |-> 0, cache |-> 0,
               result |-> NoHash]

Threads == 1..NThreads

\* epoch keys: 0 is the all-zero uint256(), the others are two digests
Keys == {0, 1, 2}

\* the header bytes handed to PowHash
Inputs == {1, 2}

\* ~RxWorkVerifier3() has not run, and the contexts it deleted, in order
NoDtor == [done |-> FALSE, deleted |-> <<>>]

\* the loop of ~RxWorkVerifier3(): "for (int i = 0; i < mCacheStack.size();
\* ++i) { cache = mCacheStack.pop(); delete cache; }", size() read anew at
\* every test
RECURSIVE DestructorLoop(_, _, _)
DestructorLoop(i, stack, deleted) ==
    IF i < Len(stack)
    THEN DestructorLoop(i + 1, StackAfterPop(stack), Append(deleted, Top(stack)))
    ELSE [stack |-> stack, deleted |-> deleted]

\* the functions of pow.cpp that take no engine leave the pool alone: a pool
\* of no context that no thread calls
PoolUnused ==
    /\ m_nCaches = 0
    /\ mCacheStack = <<>>
    /\ ctx = <<>>
    /\ th = [t \in Threads |-> IdleThread]
    /\ calls = 0
    /\ crashed = FALSE
    /\ dtor = NoDtor

\* ------------------------------------------------------------------------
\* Inputs of the model
\* ------------------------------------------------------------------------

\* the value 2^(8n) - 1, the shape of a chain's powLimit (00..00ff..ff)
PowLimitOfBytes(n) == [i \in 1..WIDTH |-> IF i <= n THEN 255 ELSE 0]

\* 2^224 - 1 (compact 0x1d00ffff) and 2^240 - 1 (compact 0x1f00ffff)
PowLimits == {PowLimitOfBytes(28), PowLimitOfBytes(30)}

\* 14 days
TargetTimespans == {1209600}

\* Consensus::Params, the fields pow.cpp reads
ParamSet ==
    {[powLimit |-> l, nPowTargetTimespan |-> t, nPowTargetSpacing |-> t \div Interval,
      fPowAllowMinDifficultyBlocks |-> a, fPowNoRetargeting |-> n] :
        l \in PowLimits, t \in TargetTimespans, a \in BOOLEAN, n \in BOOLEAN}

\* top bytes and low 24 bits of the compact targets tried: 8388608 is the
\* sign bit 0x00800000
Sizes == {0, 1, 2, 3, 4, 27, 28, 29, 30, 31, 32, 33, 34, 35, 255}
Words == {0, 1, 128, 255, 256, 65535, 65536, 1193046, 8388607,
          8388608, 8388609, 8454143, 16777215}
CompactSet == [nSize : Sizes, nWord : Words]

\* the old_nbits tried by PermittedDifficultyTransition: the bits of a header
\* that passed the range check of CheckProofOfWork
OldSizes == {3, 4, 28, 29, 30, 31, 32}
OldWords == {0, 1, 65535, 65536, 1193046, 8388607}
OldCompactSet(p) ==
    {c \in [nSize : OldSizes, nWord : OldWords] :
        SetCompact(c).value # Zero /\ LtEq(SetCompact(c).value, p.powLimit)}

RECURSIVE AddFrom(_, _, _)
AddFrom(x, i, carry) ==
    IF i > WIDTH THEN <<>>
    ELSE LET t == x[i] + carry
         IN  <<t % 256>> \o AddFrom(x, i + 1, t \div 256)

RECURSIVE SubFrom(_, _, _)
SubFrom(x, i, borrow) ==
    IF i > WIDTH THEN <<>>
    ELSE IF x[i] < borrow THEN <<255>> \o SubFrom(x, i + 1, 1)
    ELSE <<x[i] - borrow>> \o SubFrom(x, i + 1, 0)

\* x + 1 and x - 1 modulo 2^256
AddOne(x) == AddFrom(x, 1, 1)
SubOne(x) == SubFrom(x, 1, 1)

\* the largest 256-bit value
AllOnes == PowLimitOfBytes(WIDTH)

\* the hashes tried against nBits: the ends of the range and the
\* neighbours of the decoded target
HashSet(nBits, p) ==
    LET t == SetCompact(nBits).value
    IN  {Zero, AllOnes, t, AddOne(t), SubOne(t), p.powLimit}

\* the next compact target above and below a canonical one
CompactAbove(c) ==
    IF c.nWord >= 8388607 THEN [nSize |-> c.nSize + 1, nWord |-> 32768]
    ELSE [nSize |-> c.nSize, nWord |-> c.nWord + 1]
CompactBelow(c) ==
    IF c.nWord = 0 THEN c
    ELSE IF c.nWord <= 32768 /\ c.nSize > 3 THEN [nSize |-> c.nSize - 1, nWord |-> 8388607]
    ELSE [nSize |-> c.nSize, nWord |-> c.nWord - 1]

\* min(4x, limit) and min(x / 4, limit) as unbounded integers: 4x > limit
\* exactly when x > limit \div 4
Times4Capped(x, limit) == IF Gt(x, DivSmall(limit, 4)) THEN limit ELSE MulSmall(x, 4)
Quarter(x, limit) == IF Gt(DivSmall(x, 4), limit) THEN limit ELSE DivSmall(x, 4)

\* encodeCompact then decode: the value re-rounded through the compact form
Rounded(x) == SetCompact(GetCompact(x)).value

\* the new_nbits tried against old_nbits: the old value, the two permitted
\* bounds and their neighbours, values far away, the old value with the sign
\* bit set, and the old mantissa moved by one byte (the same target in
\* another encoding when no bits are lost)
NewSet(old, p) ==
    LET v == SetCompact(old).value
        hi == GetCompact(Times4Capped(v, p.powLimit))
        lo == GetCompact(Quarter(v, p.powLimit))
    IN  {old, hi, CompactAbove(hi), CompactBelow(hi), lo, CompactAbove(lo),
         CompactBelow(lo), GetCompact(p.powLimit),
         [nSize |-> 1, nWord |-> 65536], [nSize |-> 32, nWord |-> 8388607],
         [nSize |-> old.nSize, nWord |-> old.nWord + 8388608],
         IF old.nWord < 32768 THEN [nSize |-> old.nSize - 1, nWord |-> old.nWord * 256]
         ELSE [nSize |-> old.nSize + 1, nWord |-> old.nWord \div 256]}

\* tip.time - firstBlockTime values below, across and beyond the clamp range
Timespans(t) ==
    {0 - 600, 0, (t \div 4) - 1, t \div 4, (t \div 4) + 1, t \div 2, t - 1, t, t + 1,
     2 * t, 4 * t - 1, 4 * t, 4 * t + 1, 8 * t}

\* ------------------------------------------------------------------------
\* The miner: RxWorkMiner
\* ------------------------------------------------------------------------

\* a uint32_t is its four bytes, least significant first, as WriteLE32 lays
\* them out; ++ and - 1 are modulo 2^32
Uint32Inc(n) ==
    [i \in 1..4 |-> IF \A j \in 1..(i - 1) : n[j] = 255 THEN (n[i] + 1) % 256 ELSE n[i]]
Uint32Dec(n) ==
    [i \in 1..4 |-> IF \A j \in 1..(i - 1) : n[j] = 0 THEN (n[i] + 255) % 256 ELSE n[i]]

\* the nonce after k increments
RECURSIVE NonceAfter(_, _)
NonceAfter(n, k) == IF k = 0 THEN n ELSE NonceAfter(Uint32Inc(n), k - 1)

\* the nonces a search from n tries first
Tried(n) == {NonceAfter(n, k) : k \in 0..(MaxTries - 1)}

\* the starting nonces: 0, and 0xfffffffe, from where the counter wraps
StartNonces == {<<0, 0, 0, 0>>, <<254, 255, 255, 255>>}

\* the bits of the template header: a usual target (0x1d00ffff), the
\* target 1 (0x01010000), and the usual target with the sign bit set
\* (0x1d80ffff)
MinerBits == {[nSize |-> 29, nWord |-> 65535], [nSize |-> 1, nWord |-> 65536],
              [nSize |-> 29, nWord |-> 8454143]}

\* the hashes an engine may give: the target itself, the last that wins, and
\* the first one above it
HashChoices(nBits) ==
    LET t == SetCompact(nBits).value IN {t, AddOne(t)}

\* HashBytesToUnit256 copies the 32 bytes, and UintToArith256 reads them
\* least significant first
HashBytesToUnit256(hashBytes) == [i \in 1..WIDTH |-> hashBytes[i]]

\* what the private constructor leaves in mVm and mDataset: a member it never
\* assigns keeps whatever the object's memory held ("unset")
RxWorkMiner(alloc) ==
    CASE alloc = "ok" -> [mVm |-> "built", mDataset |-> "built"]
      [] alloc = "no_cache" -> [mVm |-> "unset", mDataset |-> "unset"]
      [] alloc = "no_dataset" -> [mVm |-> "unset", mDataset |-> "null"]
      [] alloc = "no_vm" -> [mVm |-> "null", mDataset |-> "built"]

MinerAllocOutcomes == {"ok", "no_cache", "no_dataset", "no_vm"}

\* the mutex taken whether or not another thread holds it
MutexFree_Always(owner) == TRUE

\* LOCK(mMutex) goes on when no thread holds the mutex
MutexFree(owner) == owner = 0

\* the nonce given back is the one after the winning one
WinningNonce_Next(nonce) == nonce

\* "*pNonce = nonce - 1"
WinningNonce(nonce) == Uint32Dec(nonce)

\* the caller's *pHash and *pNonce before Mine writes them
Unwritten == [written |-> FALSE, hash |-> Zero, nonce |-> <<0, 0, 0, 0>>]

\* a thread outside Mine
IdleMiner == [pc |-> "idle", pred |-> FALSE, nonce |-> <<0, 0, 0, 0>>, hash |-> Zero,
              nHash |-> 0, nPolls |-> 0, out |-> Unwritten, ret |-> FALSE]

Miners == {1, 2}

NoHeader == [nNonce |-> <<0, 0, 0, 0>>, nBits |-> [nSize |-> 0, nWord |-> 0]]

\* no RxWorkMiner has been built
MinerUnused ==
    /\ mVm = "unset"
    /\ mDataset = "unset"
    /\ mBlockHeader = NoHeader
    /\ mMutex = 0
    /\ mt = [m \in Miners |-> IdleMiner]
    /\ shutdown = FALSE
    /\ oracle = <<>>
    /\ mCrashed = FALSE

\* ------------------------------------------------------------------------
\* The private constructor of RxWorkMiner (src/src/pow.h)
\* ------------------------------------------------------------------------

\* "const int nThreads = 8"
nThreads == 8

\* every worker gets perThread items, the remainder is dropped
WorkerCount_NoRemainder(i, itemCount) == itemCount \div nThreads

\* "auto count = perThread + (i == nThreads - 1 ? remainder : 0)" of the
\* worker started at iteration i of the loop (i = 0 .. nThreads - 1)
WorkerCount(i, itemCount) ==
    LET perThread == itemCount \div nThreads
        remainder == itemCount % nThreads
    IN  perThread + (IF i = nThreads - 1 THEN remainder ELSE 0)

\* a std::thread running randomx_init_dataset(mDataset, cache, startItem,
\* count): done is the number of items it has initialised so far
Worker(start, count) ==
    [startItem |-> start, count |-> count, done |-> 0, joined |-> FALSE]

\* the items a worker is to initialise
Range(w) == w.startItem .. (w.startItem + w.count - 1)

\* no RxWorkMiner is under construction
CtorUnused ==
    /\ cpc = "unused"
    /\ cache = "none"
    /\ datasetItemCount = 0
    /\ startItem = 0
    /\ threads = <<>>
    /\ initialized = <<>>

\* ------------------------------------------------------------------------
\* ThreadPool (src/src/util/threadpool.h)
\* ------------------------------------------------------------------------

\* a worker thread at the top of its loop, about to take queueMutex and test
\* the predicate of condition.wait
NewWorker == [pc |-> "test", task |-> 0, joined |-> FALSE]

\* the threads that use the pool: the one that owns it (it may call
\* stopAndWait and it destroys the pool) and one more that enqueues
Clients == {"owner", "producer"}

\* a thread outside every member function: saw is how its stopAndWait ended
IdleClient == [pc |-> "idle", saw |-> "none", failed |-> 0, inDtor |-> FALSE]

\* no ThreadPool has been built
TpUnused ==
    /\ numThreads = 0
    /\ defaultCtor = FALSE
    /\ workers = <<>>
    /\ tasks = <<>>
    /\ exceptions = <<>>
    /\ stop = FALSE
    /\ cl = [c \in Clients |-> IdleClient]
    /\ nAccepted = 0
    /\ nCalls = 0
    /\ throwing = {}
    /\ executed = <<>>

\* ------------------------------------------------------------------------
\* The functions of pow.cpp called on arbitrary arguments
\* ------------------------------------------------------------------------

NoBits == [nSize |-> 0, nWord |-> 0]
NoArgs == [hash |-> Zero, nBits |-> NoBits, old_nbits |-> NoBits, nTime |-> 0,
           nFirstBlockTime |-> 0, nHeight |-> 0]

Genesis(bits) == <<[nHeight |-> 0, nBits |-> bits, nTime |-> 0]>>

Init ==
    /\ params \in ParamSet
    /\ chain = Genesis(GetCompact(params.powLimit))
    /\ pc = "idle"
    /\ op = "none"
    /\ args = NoArgs
    /\ ret = FALSE
    /\ PoolUnused
    /\ MinerUnused
    /\ CtorUnused
    /\ TpUnused

CallCheckProofOfWork ==
    /\ pc = "idle"
    /\ \E nBits \in CompactSet : \E hash \in HashSet(nBits, params) :
          /\ args' = [NoArgs EXCEPT !.hash = hash, !.nBits = nBits]
          /\ ret' = CheckProofOfWork(hash, nBits, params)
    /\ pc' = "done"
    /\ op' = "CheckProofOfWork"
    /\ UNCHANGED <<params, chain, poolVars, minerVars, ctorVars, tpVars>>

CallCalculateNextWorkRequired ==
    /\ pc = "idle"
    /\ \E nBits \in CompactSet : \E span \in Timespans(params.nPowTargetTimespan) :
          LET nFirstBlockTime == 1000000
              pindexLast == [nHeight |-> Interval - 1, nBits |-> nBits,
                             nTime |-> nFirstBlockTime + span]
          IN  /\ args' = [NoArgs EXCEPT !.nBits = nBits, !.nTime = pindexLast.nTime,
                                        !.nFirstBlockTime = nFirstBlockTime,
                                        !.nHeight = pindexLast.nHeight]
              /\ ret' = CalculateNextWorkRequired(pindexLast, nFirstBlockTime, params)
    /\ pc' = "done"
    /\ op' = "CalculateNextWorkRequired"
    /\ UNCHANGED <<params, chain, poolVars, minerVars, ctorVars, tpVars>>

CallPermittedDifficultyTransition ==
    /\ pc = "idle"
    /\ \E height \in 0..MaxHeight : \E old \in OldCompactSet(params) : \E new \in NewSet(old, params) :
          /\ args' = [NoArgs EXCEPT !.nHeight = height, !.old_nbits = old, !.nBits = new]
          /\ ret' = PermittedDifficultyTransition(params, height, old, new)
    /\ pc' = "done"
    /\ op' = "PermittedDifficultyTransition"
    /\ UNCHANGED <<params, chain, poolVars, minerVars, ctorVars, tpVars>>

\* the caller takes the result
Return ==
    /\ pc = "done"
    /\ pc' = "idle"
    /\ op' = "none"
    /\ args' = NoArgs
    /\ ret' = FALSE
    /\ UNCHANGED <<params, chain, poolVars, minerVars, ctorVars, tpVars>>

Next ==
    \/ CallCheckProofOfWork
    \/ CallCalculateNextWorkRequired
    \/ CallPermittedDifficultyTransition
    \/ Return

Spec == Init /\ [][Next]_vars

\* ------------------------------------------------------------------------
\* Properties of CheckProofOfWork
\* ------------------------------------------------------------------------

Called(name) == pc = "done" /\ op = name

\* the sign bit 0x00800000 of a compact target, and its mantissa
SignBit(c) == c.nWord >= 8388608
Mantissa(c) == c.nWord % 8388608

\* number of bytes of a mantissa
MantissaBytes(m) == IF m = 0 THEN 0 ELSE IF m < 256 THEN 1 ELSE IF m < 65536 THEN 2 ELSE 3

\* mantissa * 256^(nSize - 3) does not fit 256 bits
Overflows(c) == Mantissa(c) # 0 /\ c.nSize > 3 /\ c.nSize - 3 + MantissaBytes(Mantissa(c)) > WIDTH

Decode(c) == SetCompact(c).value

\* the compact target is one the range check must refuse
InvalidTarget(c, p) ==
    SignBit(c) \/ Decode(c) = Zero \/ Overflows(c) \/ Gt(Decode(c), p.powLimit)

\* C1: CheckProofOfWork returns false, for every hash, when nBits has its
\* sign bit set, decodes to zero, overflows 256 bits or decodes above
\* powLimit; the outcome is always a boolean, never a failure.
C1_InvalidTargetIsFalse ==
    Called("CheckProofOfWork") =>
        /\ ret \in BOOLEAN
        /\ InvalidTarget(args.nBits, params) => ret = FALSE

\* a negative target that the zero hash would otherwise satisfy is refused
C1_Witness ==
    /\ Called("CheckProofOfWork")
    /\ SignBit(args.nBits) /\ Mantissa(args.nBits) # 0 /\ ~Overflows(args.nBits)
    /\ LtEq(Decode(args.nBits), params.powLimit)
    /\ args.hash = Zero
    /\ ret = FALSE

\* C2: for a non-negative, non-zero, non-overflowing target not above
\* powLimit, CheckProofOfWork returns true exactly when hash <= target.
C2_ValidTargetComparesHash ==
    (Called("CheckProofOfWork") /\ ~InvalidTarget(args.nBits, params)) =>
        (ret = TRUE <=> LtEq(args.hash, Decode(args.nBits)))

\* a hash equal to a valid target is accepted
C2_Witness ==
    /\ Called("CheckProofOfWork")
    /\ ~InvalidTarget(args.nBits, params)
    /\ args.hash = Decode(args.nBits)
    /\ ret = TRUE

\* ------------------------------------------------------------------------
\* Properties of CalculateNextWorkRequired
\* ------------------------------------------------------------------------

ActualTimespan == args.nTime - args.nFirstBlockTime

\* C3 as stated: CalculateNextWorkRequired never returns a compact target
\* whose decoded value exceeds powLimit, for every tip.bits and timespan.
C3_NeverAbovePowLimit ==
    Called("CalculateNextWorkRequired") => LtEq(Decode(ret), params.powLimit)

\* C3 amended: with noRetargeting false the returned target never exceeds
\* powLimit, for every tip.bits and timespan; with noRetargeting true the
\* result is tip.bits unchanged.
C3_NeverAbovePowLimitWhenRetargeting ==
    Called("CalculateNextWorkRequired") =>
        IF params.fPowNoRetargeting THEN ret = args.nBits
        ELSE LtEq(Decode(ret), params.powLimit)

\* a retarget of a target above powLimit comes out as powLimit
C3_Witness ==
    /\ Called("CalculateNextWorkRequired")
    /\ ~params.fPowNoRetargeting
    /\ Gt(Decode(args.nBits), params.powLimit)
    /\ ActualTimespan > params.nPowTargetTimespan * 4
    /\ ret = GetCompact(params.powLimit)

Canonical(c) == ~SignBit(c) /\ GetCompact(Decode(c)) = c

\* C8: with noRetargeting false, a timespan of exactly targetTimespan and
\* a canonical tip.bits whose target is within powLimit, the result is
\* tip.bits unchanged.
C8_ExactTimespanKeepsBits ==
    (/\ Called("CalculateNextWorkRequired")
     /\ ~params.fPowNoRetargeting
     /\ ActualTimespan = params.nPowTargetTimespan
     /\ Canonical(args.nBits)
     /\ LtEq(Decode(args.nBits), params.powLimit)) =>
        ret = args.nBits

\* a non-zero canonical target below powLimit is kept
C8_Witness ==
    /\ Called("CalculateNextWorkRequired")
    /\ ~params.fPowNoRetargeting
    /\ ActualTimespan = params.nPowTargetTimespan
    /\ Canonical(args.nBits)
    /\ Decode(args.nBits) # Zero
    /\ Lt(Decode(args.nBits), params.powLimit)
    /\ ret = args.nBits

\* ------------------------------------------------------------------------
\* Properties of PermittedDifficultyTransition
\* ------------------------------------------------------------------------

AtRetargetBoundary == args.nHeight % DifficultyAdjustmentInterval(params) = 0

\* the largest and smallest permitted targets, re-rounded
MaxPermitted(old, p) == Rounded(Times4Capped(Decode(old), p.powLimit))
MinPermitted(old, p) == Rounded(Quarter(Decode(old), p.powLimit))

\* C4: at a retarget boundary with allowMinDifficultyBlocks false, the
\* result is false exactly when decode(newBits) is above the re-rounded
\* min(4 * decode(oldBits), powLimit) or below the re-rounded
\* min(decode(oldBits) / 4, powLimit).
C4_RetargetWithinFactorFour ==
    (/\ Called("PermittedDifficultyTransition")
     /\ ~params.fPowAllowMinDifficultyBlocks
     /\ AtRetargetBoundary) =>
        (ret = FALSE <=> \/ Gt(Decode(args.nBits), MaxPermitted(args.old_nbits, params))
                         \/ Lt(Decode(args.nBits), MinPermitted(args.old_nbits, params)))

\* C27: with noRetargeting and allowMinDifficultyBlocks false and a target
\* timespan divisible by 4, for every canonical oldBits whose target is
\* within powLimit and every actual timespan, PermittedDifficultyTransition
\* accepts, at the retarget boundary that follows the tip, the step from
\* oldBits to the bits CalculateNextWorkRequired computes from them.
C27_RetargetIsPermitted ==
    (/\ Called("CalculateNextWorkRequired")
     /\ ~params.fPowNoRetargeting
     /\ ~params.fPowAllowMinDifficultyBlocks
     /\ params.nPowTargetTimespan % 4 = 0
     /\ (args.nHeight + 1) % DifficultyAdjustmentInterval(params) = 0
     /\ Canonical(args.nBits)
     /\ LtEq(Decode(args.nBits), params.powLimit)) =>
        PermittedDifficultyTransition(params, args.nHeight + 1, args.nBits, ret)

\* C5: at a non-retarget height with allowMinDifficultyBlocks false, the
\* result is true if and only if oldBits = newBits.
C5_SameBitsOffBoundary ==
    (/\ Called("PermittedDifficultyTransition")
     /\ ~params.fPowAllowMinDifficultyBlocks
     /\ ~AtRetargetBoundary) =>
        (ret = TRUE <=> args.old_nbits = args.nBits)

\* two encodings of one target are refused away from a boundary
C5_Witness ==
    /\ Called("PermittedDifficultyTransition")
    /\ ~params.fPowAllowMinDifficultyBlocks
    /\ ~AtRetargetBoundary
    /\ args.old_nbits # args.nBits
    /\ Decode(args.old_nbits) = Decode(args.nBits)
    /\ ret = FALSE

\* C6: when allowMinDifficultyBlocks is true the result is true for every
\* height and every pair (oldBits, newBits).
C6_MinDifficultyAlwaysPermitted ==
    (Called("PermittedDifficultyTransition") /\ params.fPowAllowMinDifficultyBlocks) =>
        ret = TRUE

\* a pair more than a factor of 4 apart is permitted at a boundary
C6_Witness ==
    /\ Called("PermittedDifficultyTransition")
    /\ params.fPowAllowMinDifficultyBlocks
    /\ AtRetargetBoundary
    /\ Gt(Decode(args.nBits), MaxPermitted(args.old_nbits, params))
    /\ ret = TRUE

\* ------------------------------------------------------------------------
\* A chain whose blocks take the bits GetNextWorkRequired asks for
\* ------------------------------------------------------------------------

\* the genesis bits: the minimum difficulty, or sixteen times harder
GenesisBits(p) == {GetCompact(p.powLimit), GetCompact(DivSmall(p.powLimit, 16))}

\* seconds between a block and the next: a twelfth of the timespan, exactly
\* two spacings (the last time that is not too late), and twice the timespan
Deltas(p) == {p.nPowTargetTimespan \div 12, p.nPowTargetSpacing * 2,
              p.nPowTargetTimespan * 2}

NoResult == [aborted |-> FALSE, nBits |-> NoBits]

InitChain ==
    /\ params \in ParamSet
    /\ \E b \in GenesisBits(params) : chain = Genesis(b)
    /\ pc = "idle"
    /\ op = "none"
    /\ args = NoArgs
    /\ ret = NoResult
    /\ PoolUnused
    /\ MinerUnused
    /\ CtorUnused
    /\ TpUnused

Tip == BlockAt(chain, Len(chain) - 1)

\* the next header is given the bits GetNextWorkRequired returns for the tip
\* and its own time, and becomes the tip
ConnectBlock ==
    /\ Tip.nHeight < MaxHeight
    /\ ~ret.aborted
    /\ \E delta \in Deltas(params) :
          LET nTime == Tip.nTime + delta
              r == GetNextWorkRequired(chain, nTime, params)
          IN  /\ ret' = r
              /\ args' = [NoArgs EXCEPT !.nTime = nTime, !.nHeight = Tip.nHeight]
              /\ chain' = IF r.aborted THEN chain
                          ELSE Append(chain, [nHeight |-> Tip.nHeight + 1,
                                              nBits |-> r.nBits, nTime |-> nTime])
    /\ op' = "GetNextWorkRequired"
    /\ UNCHANGED <<params, pc, poolVars, minerVars, ctorVars, tpVars>>

NextChain == ConnectBlock

SpecChain == InitChain /\ [][NextChain]_vars

\* ------------------------------------------------------------------------
\* Properties of GetNextWorkRequired
\* ------------------------------------------------------------------------

\* pindexLast of the last call
Last == BlockAt(chain, args.nHeight)

AskedAtBoundary ==
    /\ op = "GetNextWorkRequired"
    /\ (args.nHeight + 1) % DifficultyAdjustmentInterval(params) = 0

\* C9: at a retarget boundary GetNextWorkRequired returns
\* CalculateNextWorkRequired(tip, time of the ancestor at height
\* tip.height - (interval - 1)); that height is >= 0 and no assertion fails.
C9_BoundaryDelegates ==
    AskedAtBoundary =>
        LET first == args.nHeight - (DifficultyAdjustmentInterval(params) - 1)
        IN  /\ first >= 0
            /\ ~ret.aborted
            /\ ret.nBits = CalculateNextWorkRequired(Last, BlockAt(chain, first).nTime, params)

\* the first boundary of a chain, whose first block is the genesis block,
\* retargets to bits other than the tip's
C9_Witness ==
    /\ AskedAtBoundary
    /\ args.nHeight = DifficultyAdjustmentInterval(params) - 1
    /\ ~ret.aborted
    /\ ret.nBits # Last.nBits

AskedOnTimeOffBoundary ==
    /\ op = "GetNextWorkRequired"
    /\ (args.nHeight + 1) % DifficultyAdjustmentInterval(params) # 0
    /\ params.fPowAllowMinDifficultyBlocks
    /\ args.nTime <= Last.nTime + 2 * params.nPowTargetSpacing

\* a block at a retarget height, or one that is not a min-difficulty block
EndsWalk(h) ==
    \/ h % DifficultyAdjustmentInterval(params) = 0
    \/ BlockAt(chain, h).nBits # GetCompact(params.powLimit)

\* C10: off a boundary, with allowMinDifficultyBlocks and a candidate not
\* later than tip.time + 2 * targetSpacing, GetNextWorkRequired returns
\* the bits of the most recent block, the tip included, that is at a
\* retarget height or is not a min-difficulty block.
C10_LastNonMinDifficultyBits ==
    AskedOnTimeOffBoundary =>
        \E h \in 0..args.nHeight :
            /\ EndsWalk(h)
            /\ \A k \in (h + 1)..args.nHeight : ~EndsWalk(k)
            /\ ~ret.aborted
            /\ ret.nBits = BlockAt(chain, h).nBits

\* the walk steps over a min-difficulty tip and returns harder bits
C10_Witness ==
    /\ AskedOnTimeOffBoundary
    /\ ~EndsWalk(args.nHeight)
    /\ ret.nBits # GetCompact(params.powLimit)

AskedOffBoundary ==
    /\ op = "GetNextWorkRequired"
    /\ (args.nHeight + 1) % DifficultyAdjustmentInterval(params) # 0

\* C11: off a boundary, with allowMinDifficultyBlocks and a candidate
\* strictly later than tip.time + 2 * targetSpacing, GetNextWorkRequired
\* returns the compact form of powLimit whatever the tip's bits; without
\* allowMinDifficultyBlocks it returns the tip's bits whatever the
\* candidate's time.
C11_OffBoundary ==
    AskedOffBoundary =>
        /\ ~ret.aborted
        /\ ( /\ params.fPowAllowMinDifficultyBlocks
             /\ args.nTime > Last.nTime + 2 * params.nPowTargetSpacing )
           => ret.nBits = GetCompact(params.powLimit)
        /\ ~params.fPowAllowMinDifficultyBlocks => ret.nBits = Last.nBits

\* a late candidate on a tip harder than the limit is given the limit
C11_Witness ==
    /\ AskedOffBoundary
    /\ params.fPowAllowMinDifficultyBlocks
    /\ args.nTime > Last.nTime + 2 * params.nPowTargetSpacing
    /\ Last.nBits # GetCompact(params.powLimit)
    /\ ret.nBits = GetCompact(params.powLimit)

\* ------------------------------------------------------------------------
\* Threads calling RxWorkVerifier3::PowHash on the pool
\* ------------------------------------------------------------------------

\* FreePhysicalMemory() of the machines tried: nothing, one byte short of a
\* context, one context, more contexts than any machine has cores
FreeMemories == {0, ONE_CACHE_SIZE - 1, ONE_CACHE_SIZE, ONE_CACHE_SIZE * (MaxCores + 1)}

\* the pool's threads never call the functions of the retarget engine
PowUnused ==
    /\ params = CHOOSE p \in ParamSet : TRUE
    /\ chain = Genesis(GetCompact(params.powLimit))
    /\ pc = "idle"
    /\ op = "none"
    /\ args = NoArgs
    /\ ret = FALSE

\* RxWorkVerifier3(): m_nCaches contexts, each built as VerifierCtx(uint256())
\* and pushed; no thread has called PowHash yet
InitPool ==
    /\ PowUnused
    /\ \E cores \in 0..MaxCores : \E freeMemory \in FreeMemories :
          m_nCaches = PoolSize(cores, freeMemory)
    /\ ctx = [i \in 1..m_nCaches |-> VerifierCtx(0, "ok").ctx]
    /\ mCacheStack = [i \in 1..m_nCaches |-> i]
    /\ th = [t \in Threads |-> IdleThread]
    /\ calls = 0
    /\ crashed = FALSE
    /\ dtor = NoDtor
    /\ MinerUnused
    /\ CtorUnused
    /\ TpUnused

\* threads blocked in cond.wait
Waiters == {t \in Threads : th[t].pc = "wait"}

\* a thread enters PowHash(key, input, inputSize)
CallPowHash(t) ==
    /\ ~crashed
    /\ ~dtor.done
    /\ th[t].pc = "idle"
    /\ calls < MaxCalls
    /\ calls' = calls + 1
    /\ \E key \in Keys : \E input \in Inputs :
          th' = [th EXCEPT ![t] = [pc |-> "pop", key |-> key, input |-> input,
                                   cache |-> 0, result |-> NoHash]]
    /\ UNCHANGED <<powVars, minerVars, ctorVars, tpVars, m_nCaches, mCacheStack, ctx, crashed, dtor>>

\* SyncStack::pop under the mutex, on entry and after each wake-up: wait
\* while the stack is empty, else take the top
Pop(t) ==
    /\ ~crashed
    /\ th[t].pc \in {"pop", "notified"}
    /\ IF mCacheStack = <<>>
       THEN /\ th' = [th EXCEPT ![t].pc = "wait"]
            /\ UNCHANGED mCacheStack
       ELSE /\ th' = [th EXCEPT ![t].pc = "reinitialize",
                                ![t].cache = Top(mCacheStack)]
            /\ mCacheStack' = StackAfterPop(mCacheStack)
    /\ UNCHANGED <<powVars, minerVars, ctorVars, tpVars, m_nCaches, ctx, calls, crashed, dtor>>

\* cond.wait may return without a notification
SpuriousWake(t) ==
    /\ ~crashed
    /\ th[t].pc = "wait"
    /\ th' = [th EXCEPT ![t].pc = "pop"]
    /\ UNCHANGED <<powVars, minerVars, ctorVars, tpVars, m_nCaches, mCacheStack, ctx, calls, crashed, dtor>>

\* cache->reinitialize(key)
Reinitialize(t) ==
    /\ ~crashed
    /\ th[t].pc = "reinitialize"
    /\ \E alloc \in AllocOutcomes :
          LET r == reinitialize(ctx[th[t].cache], th[t].key, alloc)
          IN  /\ ctx' = [ctx EXCEPT ![th[t].cache] = r.ctx]
              /\ crashed' = r.crashed
              /\ th' = IF r.crashed THEN th ELSE [th EXCEPT ![t].pc = "hash"]
    /\ UNCHANGED <<powVars, minerVars, ctorVars, tpVars, m_nCaches, mCacheStack, calls, dtor>>

\* randomx_calculate_hash(cache->m_vm, input, inputSize, result): the call on
\* a null vm reads through the null pointer, which ends the process (an
\* assertion of the library in a debug build, a fault on the read otherwise)
CalculateHash(t) ==
    /\ ~crashed
    /\ th[t].pc = "hash"
    /\ LET m_vm == ctx[th[t].cache].m_vm
       IN  IF m_vm.null
           THEN /\ crashed' = TRUE
                /\ UNCHANGED th
           ELSE /\ th' = [th EXCEPT ![t].pc = "push",
                                    ![t].result = RxHash(m_vm.key, th[t].input)]
                /\ UNCHANGED crashed
    /\ UNCHANGED <<powVars, minerVars, ctorVars, tpVars, m_nCaches, mCacheStack, ctx, calls, dtor>>

\* SyncStack::push under the mutex
Push(t) ==
    /\ ~crashed
    /\ th[t].pc = "push"
    /\ mCacheStack' = StackAfterPush(mCacheStack, th[t].cache)
    /\ th' = [th EXCEPT ![t].pc = "notify", ![t].cache = 0]
    /\ UNCHANGED <<powVars, minerVars, ctorVars, tpVars, m_nCaches, ctx, calls, crashed, dtor>>

\* cond.notify_one() after the unlock, then PowHash returns the hash
NotifyOne(t) ==
    /\ ~crashed
    /\ th[t].pc = "notify"
    /\ IF Notified(Waiters) = {}
       THEN th' = [th EXCEPT ![t] = IdleThread]
       ELSE \E u \in Notified(Waiters) :
               th' = [th EXCEPT ![t] = IdleThread, ![u].pc = "notified"]
    /\ UNCHANGED <<powVars, minerVars, ctorVars, tpVars, m_nCaches, mCacheStack, ctx, calls, crashed, dtor>>

\* ~RxWorkVerifier3() at process exit, when no PowHash call is in flight:
\* every context is on the stack
DestroyPool ==
    /\ ~crashed
    /\ ~dtor.done
    /\ \A t \in Threads : th[t].pc = "idle"
    /\ LET r == DestructorLoop(0, mCacheStack, <<>>)
       IN  /\ mCacheStack' = r.stack
           /\ dtor' = [done |-> TRUE, deleted |-> r.deleted]
    /\ UNCHANGED <<powVars, minerVars, ctorVars, tpVars, m_nCaches, ctx, th, calls, crashed>>

NextPool ==
    \/ \E t \in Threads :
          \/ CallPowHash(t)
          \/ Pop(t)
          \/ SpuriousWake(t)
          \/ Reinitialize(t)
          \/ CalculateHash(t)
          \/ Push(t)
          \/ NotifyOne(t)
    \/ DestroyPool

SpecPool == InitPool /\ [][NextPool]_vars

\* every thread inside PowHash takes its next step; a spurious wake-up is
\* never owed
FairPool ==
    \A t \in Threads :
        WF_vars(Pop(t) \/ Reinitialize(t) \/ CalculateHash(t) \/ Push(t) \/ NotifyOne(t))

SpecPoolFair == SpecPool /\ FairPool

\* ------------------------------------------------------------------------
\* Properties of the verifier pool
\* ------------------------------------------------------------------------

\* the PowHash calls that hold context c, between their pop and their push
Holders(c) == {t \in Threads : th[t].cache = c}

\* how many times context c lies on the free stack
FreeCount(c) == Cardinality({i \in 1..Len(mCacheStack) : mCacheStack[i] = c})

\* C12: in every reachable state of the pool's life (before its destructor)
\* each VerifierCtx is either on the free stack (once) or held by exactly
\* one PowHash call, never both and never held twice, and the free contexts
\* plus the held ones are m_nCaches.
C12_ContextExclusivity ==
    ~dtor.done =>
        /\ \A c \in 1..m_nCaches : FreeCount(c) + Cardinality(Holders(c)) = 1
        /\ \A t \in Threads : th[t].cache \in 0..m_nCaches
        /\ Len(mCacheStack) + Cardinality({t \in Threads : th[t].cache # 0}) = m_nCaches

\* two calls hold the two contexts of a pool at once and the stack is empty
C12_Witness ==
    /\ m_nCaches = 2
    /\ mCacheStack = <<>>
    /\ \E t \in Threads : \E u \in Threads :
          /\ th[t].cache = 1
          /\ th[u].cache = 2
          /\ th[t].pc = "hash"
          /\ th[u].pc = "hash"

\* C22: when the pool shuts down with all its contexts on the free stack,
\* every one of the m_nCaches contexts is deleted exactly once and the stack
\* ends empty, for every pool size.
C22_AllDestroyed ==
    dtor.done =>
        /\ mCacheStack = <<>>
        /\ \A c \in 1..m_nCaches :
              Cardinality({i \in 1..Len(dtor.deleted) : dtor.deleted[i] = c}) = 1

\* C13: on a pool of at least one context, with fair scheduling of the
\* threads inside PowHash and hash computations that end, every PowHash
\* call eventually takes a context and returns, also with more callers than
\* contexts: a caller blocked on the empty stack is woken by a release.
C13_PoolLiveness ==
    \A t \in Threads :
        (m_nCaches >= 1 /\ th[t].pc # "idle") ~> (th[t].pc = "idle" \/ crashed)

\* a caller that was blocked on the empty stack has been notified by a
\* release and finds the context on the stack
C13_Witness ==
    /\ m_nCaches >= 1
    /\ m_nCaches < NThreads
    /\ \E t \in Threads : th[t].pc = "notified"
    /\ mCacheStack # <<>>
    /\ ~crashed

\* a PowHash call that has computed its hash and not yet returned it
Hashed(t) == th[t].pc \in {"push", "notify"}

\* C14: the hash a PowHash call returns is the engine's hash of its own
\* epoch key and header bytes, whichever context served it, whatever keys
\* that context held before and whatever the other threads do, which is
\* what a single-threaded call returns.
C14_HashOfOwnInputs ==
    \A t \in Threads :
        Hashed(t) => th[t].result = RxHash(th[t].key, th[t].input)

\* a call with the all-zero key has its hash, so the context that served it
\* was bound to another key before, while another call is between its pop
\* and its push
C14_Witness ==
    \E t \in Threads : \E u \in Threads :
        /\ Hashed(t)
        /\ th[t].key = 0
        /\ th[t].result = RxHash(0, th[t].input)
        /\ th[u].pc = "hash"

\* the context a PowHash call holds
Held(t) == ctx[th[t].cache]

\* C15: when PowHash invokes the hash computation, the cache and the vm of
\* the context it holds are both non-null and were initialised with the
\* requested epoch key, for every key and every history of calls.
C15_EngineReadyAtHash ==
    \A t \in Threads :
        th[t].pc = "hash" =>
            /\ ~Held(t).m_vm.null
            /\ ~Held(t).m_cache.null
            /\ Held(t).m_cache.key = th[t].key
            /\ Held(t).m_vm.key = th[t].key

\* C16: a pool of computed size 0 is a hard failure: no PowHash call is ever
\* left waiting on a pool that has no context at all.
C16_NoWaitOnEmptyPool ==
    m_nCaches = 0 => \A t \in Threads : th[t].pc # "wait"

\* the step of thread t that returns from cache->reinitialize(key)
Reinitializes(t) ==
    /\ th[t].pc = "reinitialize"
    /\ th'[t].pc = "hash"

\* C23: the reinitialize of a PowHash call replaces the cache and vm of the
\* context it holds exactly when the requested key differs from the key the
\* context is bound to (the new pair is of the requested key); on equal keys
\* the context is left as it was; no other context changes; the process
\* ends in a rebuild only, never in a reinitialize on equal keys; and a
\* context is pushed back bound to the key its call asked for.
C23_ReinitIffKeyDiffers ==
    [][/\ \A t \in Threads :
             /\ Reinitializes(t) =>
                   LET c == th[t].cache
                       key == th[t].key
                   IN  /\ key = ctx[c].m_key => ctx'[c] = ctx[c]
                       /\ key # ctx[c].m_key =>
                             /\ ctx'[c] # ctx[c]
                             /\ ctx'[c].m_key = key
                             /\ ctx'[c].m_cache = Built(key)
                             /\ ctx'[c].m_vm \in {Built(key), NullPtr}
                       /\ \A d \in 1..m_nCaches : d # c => ctx'[d] = ctx[d]
             /\ (th[t].pc = "push" /\ th'[t].pc = "notify") =>
                   /\ ctx[th[t].cache].m_key = th[t].key
                   /\ Top(mCacheStack') = th[t].cache
                   /\ ctx' = ctx
       /\ (crashed' /\ ~crashed) =>
             \E t \in Threads :
                 \/ th[t].pc = "hash" /\ Held(t).m_vm.null
                 \/ th[t].pc = "reinitialize" /\ th[t].key # Held(t).m_key]_vars

\* a call that found its context bound to another key pushes it back,
\* rebuilt, while a second call holds a context it found bound to its key
C23_Witness ==
    \E t, u \in Threads :
        /\ t # u
        /\ th[t].pc = "push"
        /\ th[t].key # 0
        /\ Held(t) = [m_key |-> th[t].key, m_vm |-> Built(th[t].key),
                      m_cache |-> Built(th[t].key)]
        /\ th[u].pc = "hash"
        /\ th[u].key = 0
        /\ Held(u).m_vm.null

\* the epoch keys of the PowHash calls in progress
KeysInFlight == {th[t].key : t \in {u \in Threads : th[u].pc # "idle"}}

\* context c is bound to key (m_key is assigned by a rebuild and by nothing
\* else once the context is constructed)
BoundTo(c, key) == c \in 1..m_nCaches /\ ctx[c].m_key = key

\* C24: in every behaviour whose PowHash calls use no more distinct epoch
\* keys than the pool has contexts, no context is rebuilt for a key K, later
\* rebuilt for another key and later rebuilt for K again.
C24_NoChurn ==
    \A S \in SUBSET Keys : \A c \in 1..MaxCores : \A K \in Keys \ {0} :
        [](Cardinality(S) <= m_nCaches /\ KeysInFlight \subseteq S)
            => [](BoundTo(c, K) => [](~BoundTo(c, K) => []~BoundTo(c, K)))

\* stack a is stack b without its last n elements
PrefixOf(a, b, n) ==
    /\ Len(a) + n = Len(b)
    /\ \A i \in 1..Len(a) : a[i] = b[i]

\* C29: the free stack is last-in-first-out in every interleaving.  Its
\* elements stay in the order of their pushes: a push adds its context after
\* all the others and changes nothing else; a pop returns only from a stack
\* that is not empty, returns the last element of that order (the most
\* recently pushed one not yet popped) and removes that element alone; so a
\* call that acquires a context right after a release acquires the released
\* one.  The pops of the destructor take the contexts in the same order.
C29_Lifo ==
    [][/\ \A t \in Threads :
             /\ (th[t].pc = "push" /\ th'[t].pc = "notify") =>
                   /\ PrefixOf(mCacheStack, mCacheStack', 1)
                   /\ mCacheStack'[Len(mCacheStack')] = th[t].cache
             /\ (th[t].cache = 0 /\ th'[t].cache # 0) =>
                   /\ mCacheStack # <<>>
                   /\ th'[t].cache = mCacheStack[Len(mCacheStack)]
                   /\ PrefixOf(mCacheStack', mCacheStack, 1)
       /\ mCacheStack' # mCacheStack =>
             \/ \E t \in Threads : th[t].pc = "push" /\ th'[t].pc = "notify"
             \/ \E t \in Threads : th[t].cache = 0 /\ th'[t].cache # 0
             \/ /\ dtor'.done /\ ~dtor.done
                /\ \E n \in 1..Len(mCacheStack) :
                      /\ PrefixOf(mCacheStack', mCacheStack, n)
                      /\ Len(dtor'.deleted) = n
                      /\ \A i \in 1..n :
                            dtor'.deleted[i] = mCacheStack[Len(mCacheStack) + 1 - i]]_vars

\* a call acquires context 2, which an earlier call used and released,
\* while context 1, pushed before it, stays on the stack
C29_Witness ==
    \E t \in Threads :
        /\ th[t].pc = "reinitialize"
        /\ th[t].cache = 2
        /\ mCacheStack = <<1>>
        /\ ctx[2].m_key # 0

\* ------------------------------------------------------------------------
\* Threads calling RxWorkMiner::Mine on one miner
\* ------------------------------------------------------------------------

\* RxWorkMiner(key, block) has run, with each outcome of its allocations, on
\* a template header; the engine's hash of the header is some function of
\* the nonce; no thread has called Mine yet
InitMiner ==
    /\ PowUnused
    /\ PoolUnused
    /\ CtorUnused
    /\ TpUnused
    /\ \E alloc \in MinerAllocOutcomes :
          /\ mVm = RxWorkMiner(alloc).mVm
          /\ mDataset = RxWorkMiner(alloc).mDataset
    /\ \E nNonce \in StartNonces : \E nBits \in MinerBits :
          /\ mBlockHeader = [nNonce |-> nNonce, nBits |-> nBits]
          /\ oracle \in [Tried(nNonce) -> HashChoices(nBits)]
    /\ mMutex = 0
    /\ mt = [m \in Miners |-> IdleMiner]
    /\ shutdown = FALSE
    /\ mCrashed = FALSE

\* bnTarget.SetCompact(nBits, nullptr, nullptr)
bnTarget == SetCompact(mBlockHeader.nBits).value

\* a thread calls Mine(pHash, pNonce, ShutdownRequested), with a predicate
\* or with a null function pointer; each thread mines once
CallMine(m) ==
    /\ ~mCrashed
    /\ mt[m].pc = "idle"
    /\ \E pred \in BOOLEAN : mt' = [mt EXCEPT ![m].pc = "lock", ![m].pred = pred]
    /\ UNCHANGED <<powVars, poolVars, ctorVars, tpVars, mVm, mDataset, mBlockHeader, mMutex,
                   shutdown, oracle, mCrashed>>

\* LOCK(mMutex), then the locals: nonce = block.nNonce, nHash = 0
Lock(m) ==
    /\ ~mCrashed
    /\ mt[m].pc = "lock"
    /\ MutexFree(mMutex)
    /\ mMutex' = m
    /\ mt' = [mt EXCEPT ![m].pc = "poll", ![m].nonce = mBlockHeader.nNonce,
                        ![m].nHash = 0]
    /\ UNCHANGED <<powVars, poolVars, ctorVars, tpVars, mVm, mDataset, mBlockHeader,
                   shutdown, oracle, mCrashed>>

\* "if (ShutdownRequested && ShutdownRequested()) return false": the return
\* leaves the scope of the lock and of the locals.  A search goes past the nonces whose hash
\* is known only by the model's bound.
Poll(m) ==
    /\ ~mCrashed
    /\ mt[m].pc = "poll"
    /\ IF mt[m].pred /\ shutdown
       THEN /\ mt' = [mt EXCEPT ![m] = [IdleMiner EXCEPT !.pc = "done", !.ret = FALSE,
                                                         !.pred = TRUE]]
            /\ mMutex' = IF mMutex = m THEN 0 ELSE mMutex
       ELSE /\ mt[m].nHash < MaxTries
            /\ mt' = [mt EXCEPT ![m].pc = "hash",
                                ![m].nPolls = mt[m].nPolls + (IF mt[m].pred THEN 1 ELSE 0)]
            /\ UNCHANGED mMutex
    /\ UNCHANGED <<powVars, poolVars, ctorVars, tpVars, mVm, mDataset, mBlockHeader,
                   shutdown, oracle, mCrashed>>

\* the 32 bytes randomx_calculate_hash(mVm, d1, 80, result) may leave in
\* result for the nonce written at d1[76]: the engine's hash on a built vm;
\* any bytes through a pointer that was never set
ResultBytes(nonce) ==
    IF mVm = "built" THEN {oracle[nonce]}
    ELSE IF mVm = "unset" THEN HashChoices(mBlockHeader.nBits)
    ELSE {}

\* "WriteLE32(&d1[76], nonce++); randomx_calculate_hash(mVm, d1, 80, result);
\* nHash++; hash = HashBytesToUnit256(result)".  The call through a null
\* pointer ends the process, and so may the call through a pointer that was
\* never set.
Hash(m) ==
    /\ ~mCrashed
    /\ mt[m].pc = "hash"
    /\ \/ /\ mVm # "built"
          /\ mCrashed' = TRUE
          /\ UNCHANGED mt
       \/ /\ \E result \in ResultBytes(mt[m].nonce) :
                mt' = [mt EXCEPT ![m].pc = "compare",
                                 ![m].nonce = Uint32Inc(mt[m].nonce),
                                 ![m].nHash = mt[m].nHash + 1,
                                 ![m].hash = HashBytesToUnit256(result)]
          /\ UNCHANGED mCrashed
    /\ UNCHANGED <<powVars, poolVars, ctorVars, tpVars, mVm, mDataset, mBlockHeader, mMutex,
                   shutdown, oracle>>

\* "while (arith256 > bnTarget); *pHash = hash; *pNonce = nonce - 1;
\* return true"
Compare(m) ==
    /\ ~mCrashed
    /\ mt[m].pc = "compare"
    /\ IF Gt(mt[m].hash, bnTarget)
       THEN /\ mt' = [mt EXCEPT ![m].pc = "poll"]
            /\ UNCHANGED mMutex
       ELSE /\ mt' = [mt EXCEPT ![m] = [IdleMiner EXCEPT
                                !.pc = "done", !.ret = TRUE, !.pred = mt[m].pred,
                                !.out = [written |-> TRUE, hash |-> mt[m].hash,
                                         nonce |-> WinningNonce(mt[m].nonce)]]]
            /\ mMutex' = IF mMutex = m THEN 0 ELSE mMutex
    /\ UNCHANGED <<powVars, poolVars, ctorVars, tpVars, mVm, mDataset, mBlockHeader,
                   shutdown, oracle, mCrashed>>

\* the node asks for shutdown; the predicate stays true from then on
RequestShutdown ==
    /\ ~mCrashed
    /\ ~shutdown
    /\ shutdown' = TRUE
    /\ UNCHANGED <<powVars, poolVars, ctorVars, tpVars, mVm, mDataset, mBlockHeader, mMutex,
                   mt, oracle, mCrashed>>

NextMiner ==
    \/ \E m \in Miners : CallMine(m) \/ Lock(m) \/ Poll(m) \/ Hash(m) \/ Compare(m)
    \/ RequestShutdown

SpecMiner == InitMiner /\ [][NextMiner]_vars

\* every thread inside Mine takes its next step
FairMiner ==
    \A m \in Miners : WF_vars(Lock(m) \/ Poll(m) \/ Hash(m) \/ Compare(m))

SpecMinerFair == SpecMiner /\ FairMiner

\* ------------------------------------------------------------------------
\* Properties of the miner
\* ------------------------------------------------------------------------

\* a thread inside the nonce-search loop of Mine
InLoop(m) == mt[m].pc \in {"poll", "hash", "compare"}

\* with a predicate, one poll has been made for each hash computed and one
\* more for the hash about to be computed
PolledOncePerHash(m) ==
    (InLoop(m) /\ mt[m].pred) =>
        mt[m].nPolls = mt[m].nHash + (IF mt[m].pc = "hash" THEN 1 ELSE 0)

\* C17: Mine polls ShutdownRequested exactly once before each hash
\* computation; a Mine that returns false has written neither *pHash nor
\* *pNonce; and once the predicate is true (it stays true), a Mine in its
\* search loop terminates, returning false when a poll is its next step,
\* so that no hash is computed after a poll that returned true.
C17_Cancellation ==
    /\ [](\A m \in Miners : PolledOncePerHash(m))
    /\ [](\A m \in Miners : (mt[m].pc = "done" /\ ~mt[m].ret) => mt[m].out = Unwritten)
    /\ \A m \in Miners :
          (shutdown /\ mt[m].pred /\ InLoop(m)) ~> (mt[m].pc = "done")
    /\ \A m \in Miners :
          (shutdown /\ mt[m].pred /\ mt[m].pc = "poll") ~> (mt[m].pc = "done" /\ ~mt[m].ret)

\* C18: whenever Mine returns true, *pHash is the engine's hash of the
\* template header with its nonce set to *pNonce, and *pHash is at most the
\* target decoded from the header's bits, also after the nonce counter has
\* wrapped around.
C18_WinningPair ==
    \A m \in Miners :
        (mt[m].pc = "done" /\ mt[m].ret) =>
            /\ mt[m].out.written
            /\ mt[m].out.nonce \in DOMAIN oracle
            /\ mt[m].out.hash = oracle[mt[m].out.nonce]
            /\ LtEq(mt[m].out.hash, bnTarget)

\* C19: the nonce-search loops of two Mine calls on one miner never overlap:
\* at most one thread is in the loop, and it holds mMutex.
C19_OneSession ==
    /\ \A m \in Miners : \A n \in Miners : (InLoop(m) /\ InLoop(n)) => m = n
    /\ \A m \in Miners : InLoop(m) => mMutex = m

\* one thread computes a hash while the other waits for the mutex
C19_Witness ==
    \E m \in Miners : \E n \in Miners :
        /\ mt[m].pc = "hash"
        /\ mt[n].pc = "lock"
        /\ mMutex = m

\* C20: no Mine call computes a hash with a vm or a dataset that the
\* constructor did not build.
C20_EngineBuiltAtHash ==
    \A m \in Miners : mt[m].pc = "hash" => (mVm = "built" /\ mDataset = "built")

\* C26: every hash that Mine gives back with a true return passes
\* CheckProofOfWork for the bits of the template header: Mine does not report
\* success on bits that decode to a negative, overflowed, zero or
\* above-powLimit target.
C26_MinerVerifierAgree ==
    \A m \in Miners :
        (mt[m].pc = "done" /\ mt[m].ret) =>
            CheckProofOfWork(mt[m].out.hash, mBlockHeader.nBits, params)

\* the k-th nonce of a search is the first whose engine hash is within the
\* target
FirstWinner(k) ==
    /\ LtEq(oracle[NonceAfter(mBlockHeader.nNonce, k)], bnTarget)
    /\ \A j \in 0..(k - 1) : Gt(oracle[NonceAfter(mBlockHeader.nNonce, j)], bnTarget)

\* C28: a Mine call hashes the nonces nNonce, nNonce + 1, ... (mod 2^32) of
\* the template header in that order, starting with nNonce itself; the nonce
\* it gives back is the first of them whose hash is at most the target; and
\* the stored template header never changes, so that every Mine call starts
\* from the same nonce.
C28_NonceOrder ==
    /\ [](\A m \in Miners :
            /\ mt[m].pc \in {"poll", "hash"} =>
                  mt[m].nonce = NonceAfter(mBlockHeader.nNonce, mt[m].nHash)
            /\ mt[m].pc = "compare" =>
                  mt[m].nonce = NonceAfter(mBlockHeader.nNonce, mt[m].nHash)
            /\ (mt[m].pc = "done" /\ mt[m].ret) =>
                  \E k \in 0..(MaxTries - 1) :
                      /\ mt[m].out.nonce = NonceAfter(mBlockHeader.nNonce, k)
                      /\ FirstWinner(k))
    /\ [][mBlockHeader' = mBlockHeader]_vars

\* ------------------------------------------------------------------------
\* The epoch key of a header
\* ------------------------------------------------------------------------

\* "change the key approximately every 345678 seconds(~4days)"
EPOCH_SECONDS == 345678

\* a 32-bit field as CHashWriter serialises it: four bytes, least
\* significant first
Ser32(n) == [i \in 1..4 |-> (n \div (256 ^ (i - 1))) % 256]

\* the four bytes of nBits: the low 24 bits, then the size byte
SerBits(nBits) == [i \in 1..4 |-> IF i = 4 THEN nBits.nSize ELSE Ser32(nBits.nWord)[i]]

\* CHashWriter::GetHash() of the bytes written: the double SHA-256 digest is
\* taken as free of collisions, so a digest stands for the bytes hashed
GetHash(bytes) == [sha256d |-> bytes]

\* the key that changes with every second of the header's time
sha256dKeyBlock_NoBucket(block) ==
    GetHash(Ser32(block.nVersion) \o Ser32(block.nTime)
            \o SerBits(block.nBits) \o Ser32(0))

\* RxWorkMiner::sha256dKeyBlock: "keyss << block.nVersion <<
\* block.nTime/345678 << block.nBits << uint32_t(0)"
sha256dKeyBlock(block) ==
    GetHash(Ser32(block.nVersion) \o Ser32(block.nTime \div EPOCH_SECONDS)
            \o SerBits(block.nBits) \o Ser32(0))

\* key256 of CheckProofOfWorkX, from the same four fields
CheckProofOfWorkXKey(block) ==
    GetHash(Ser32(block.nVersion) \o Ser32(block.nTime \div EPOCH_SECONDS)
            \o SerBits(block.nBits) \o Ser32(0))

\* header times around the ends of the epoch buckets 0 and 1
KeyTimes == {0, EPOCH_SECONDS - 101, EPOCH_SECONDS - 100, EPOCH_SECONDS - 1,
             EPOCH_SECONDS, 2 * EPOCH_SECONDS - 50}

\* seconds between the two headers compared
KeyDeltas == {100, 400000}

KeyVersions == {1, 536870912}

\* two headers of one version and bits, the second later by delta and with
\* any previous hash, merkle root and nonce, each given to both derivations
CallEpochKey ==
    /\ pc = "idle"
    /\ \E v \in KeyVersions : \E b \in MinerBits : \E t \in KeyTimes :
       \E delta \in KeyDeltas : \E prev \in {0, 1} : \E merkle \in {0, 1} :
       \E nonce \in StartNonces :
          LET h1 == [nVersion |-> v, hashPrevBlock |-> 0, hashMerkleRoot |-> 0,
                     nTime |-> t, nBits |-> b, nNonce |-> <<0, 0, 0, 0>>]
              h2 == [nVersion |-> v, hashPrevBlock |-> prev, hashMerkleRoot |-> merkle,
                     nTime |-> t + delta, nBits |-> b, nNonce |-> nonce]
          IN  /\ args' = <<h1, h2>>
              /\ ret' = [verifier |-> <<CheckProofOfWorkXKey(h1), CheckProofOfWorkXKey(h2)>>,
                         miner |-> <<sha256dKeyBlock(h1), sha256dKeyBlock(h2)>>]
    /\ pc' = "done"
    /\ op' = "EpochKey"
    /\ UNCHANGED <<params, chain, poolVars, minerVars, ctorVars, tpVars>>

InitKey ==
    /\ PowUnused
    /\ PoolUnused
    /\ MinerUnused
    /\ CtorUnused
    /\ TpUnused

NextKey ==
    \/ CallEpochKey
    \/ Return

SpecKey == InitKey /\ [][NextKey]_vars

\* the two headers keyed differ by 100 seconds
Keyed100 == Called("EpochKey") /\ args[2].nTime = args[1].nTime + 100

InitCtor ==
    /\ PowUnused
    /\ PoolUnused
    /\ MinerUnused
    /\ TpUnused
    /\ cpc = "alloc_cache"
    /\ cache = "none"
    /\ datasetItemCount \in 0..MaxItems
    /\ startItem = 0
    /\ threads = <<>>
    /\ initialized = <<>>

\* "cache = randomx_alloc_cache(flags); if (cache == nullptr) return;" then
\* randomx_init_cache
AllocCache ==
    /\ cpc = "alloc_cache"
    /\ \E ok \in BOOLEAN :
          IF ok
          THEN cache' = "allocated" /\ cpc' = "alloc_dataset"
          ELSE cache' = "null" /\ cpc' = "returned"
    /\ UNCHANGED <<powVars, poolVars, tpVars, minerVars, datasetItemCount, startItem,
                   threads, initialized>>

\* "mDataset = randomx_alloc_dataset(flags); if (mDataset == nullptr)
\* return;", then the item count is read and startItem set to 0
AllocDataset ==
    /\ cpc = "alloc_dataset"
    /\ \E ok \in BOOLEAN :
          IF ok
          THEN /\ mDataset' = "built"
               /\ initialized' = [i \in 0..(datasetItemCount - 1) |-> 0]
               /\ cpc' = "spawn"
          ELSE /\ mDataset' = "null"
               /\ cpc' = "returned"
               /\ UNCHANGED initialized
    /\ startItem' = 0
    /\ UNCHANGED <<powVars, poolVars, tpVars, mVm, mBlockHeader, mMutex, mt, shutdown,
                   oracle, mCrashed, cache, datasetItemCount, threads>>

\* one iteration of "for (int i = 0; i < nThreads; ++i)": a worker is started
\* on [startItem, startItem + count) and startItem moves on
SpawnWorker ==
    /\ cpc = "spawn"
    /\ LET i == Len(threads)
           count == WorkerCount(i, datasetItemCount)
       IN  /\ threads' = Append(threads, Worker(startItem, count))
           /\ startItem' = startItem + count
           /\ cpc' = IF i + 1 < nThreads THEN "spawn" ELSE "join"
    /\ UNCHANGED <<powVars, poolVars, tpVars, minerVars, cache, datasetItemCount,
                   initialized>>

\* a worker initialises the next item of its range
InitItem(k) ==
    /\ k \in 1..Len(threads)
    /\ threads[k].done < threads[k].count
    /\ LET item == threads[k].startItem + threads[k].done
       IN  initialized' = [initialized EXCEPT ![item] = @ + 1]
    /\ threads' = [threads EXCEPT ![k].done = @ + 1]
    /\ UNCHANGED <<powVars, poolVars, tpVars, minerVars, cpc, cache, datasetItemCount,
                   startItem>>

\* one iteration of "threads[i].join()": it returns once the worker has
\* finished; after the last one the constructor goes on
JoinWorker ==
    /\ cpc = "join"
    /\ \E k \in 1..Len(threads) :
          /\ \A j \in 1..(k - 1) : threads[j].joined
          /\ ~threads[k].joined
          /\ threads[k].done = threads[k].count
          /\ threads' = [threads EXCEPT ![k].joined = TRUE]
          /\ cpc' = IF k = Len(threads) THEN "release" ELSE "join"
    /\ UNCHANGED <<powVars, poolVars, tpVars, minerVars, cache, datasetItemCount,
                   startItem, initialized>>

\* randomx_release_cache(cache)
ReleaseCache ==
    /\ cpc = "release"
    /\ cache' = "released"
    /\ cpc' = "create_vm"
    /\ UNCHANGED <<powVars, poolVars, tpVars, minerVars, datasetItemCount, startItem,
                   threads, initialized>>

\* "mVm = randomx_create_vm(flags, nullptr, mDataset)", then the constructor
\* returns whether or not mVm is null
CreateVm ==
    /\ cpc = "create_vm"
    /\ \E ok \in BOOLEAN : mVm' = IF ok THEN "built" ELSE "null"
    /\ cpc' = "returned"
    /\ UNCHANGED <<powVars, poolVars, tpVars, mDataset, mBlockHeader, mMutex, mt,
                   shutdown, oracle, mCrashed, cache, datasetItemCount,
                   startItem, threads, initialized>>

\* the first randomx_calculate_hash of Mine, on the constructed object
FirstHash ==
    /\ cpc = "returned"
    /\ cpc' = "hashing"
    /\ UNCHANGED <<powVars, poolVars, tpVars, minerVars, cache, datasetItemCount,
                   startItem, threads, initialized>>

NextCtor ==
    \/ AllocCache
    \/ AllocDataset
    \/ SpawnWorker
    \/ \E k \in 1..nThreads : InitItem(k)
    \/ JoinWorker
    \/ ReleaseCache
    \/ CreateVm
    \/ FirstHash

SpecCtor == InitCtor /\ [][NextCtor]_vars

\* the loop has started all its workers
FannedOut == Len(threads) = nThreads

\* the join loop is over
AllJoined == FannedOut /\ \A k \in 1..nThreads : threads[k].joined

\* what the constructor has left in the members when it returns is what
\* RxWorkMiner(alloc) says for one of the outcomes
CtorOutcome ==
    cpc \in {"returned", "hashing"} =>
        \E alloc \in MinerAllocOutcomes :
            /\ mVm = RxWorkMiner(alloc).mVm
            /\ mDataset = RxWorkMiner(alloc).mDataset

\* C25: the nThreads worker ranges have itemCount / nThreads items each, the
\* last one itemCount % nThreads more; they are contiguous from 0, pairwise
\* disjoint and cover exactly 0 .. itemCount - 1; no item is ever initialised
\* twice; and the cache is released, the vm created and the first hash
\* computed on a dataset only after every worker has been joined, with every
\* item initialised exactly once.
C25_FanOutJoin ==
    /\ \A k \in 1..Len(threads) :
          /\ threads[k].count = datasetItemCount \div nThreads
                + (IF k = nThreads THEN datasetItemCount % nThreads ELSE 0)
          /\ threads[k].startItem = (k - 1) * (datasetItemCount \div nThreads)
          /\ Range(threads[k]) \subseteq 0..(datasetItemCount - 1)
          /\ \A j \in 1..Len(threads) :
                j # k => Range(threads[j]) \cap Range(threads[k]) = {}
    /\ FannedOut =>
          UNION {Range(threads[k]) : k \in 1..nThreads} = 0..(datasetItemCount - 1)
    /\ \A i \in DOMAIN initialized : initialized[i] <= 1
    /\ (cache = "released" \/ mVm # "unset" \/ (cpc = "hashing" /\ mDataset = "built"))
          => /\ AllJoined
             /\ DOMAIN initialized = 0..(datasetItemCount - 1)
             /\ \A i \in DOMAIN initialized : initialized[i] = 1

\* the constructor has returned a built engine over a dataset whose item
\* count is not a multiple of nThreads and gives every worker something to
\* do, and the first hash is under way
C25_Witness ==
    /\ cpc = "hashing"
    /\ mVm = "built"
    /\ datasetItemCount % nThreads # 0
    /\ datasetItemCount \div nThreads >= 1
    /\ AllJoined

\* ------------------------------------------------------------------------
\* A ThreadPool, its workers and the threads that use it
\* ------------------------------------------------------------------------

\* ThreadPool(numThreads) starts numThreads workers.  ThreadPool() builds a
\* temporary ThreadPool(hardware_concurrency()) in its body, which is
\* destroyed at the end of the statement, and starts no worker of its own.
WorkersBuilt(byDefault, n) == IF byDefault THEN 0 ELSE n

InitTp ==
    /\ PowUnused
    /\ PoolUnused
    /\ MinerUnused
    /\ CtorUnused
    /\ numThreads \in 0..MaxWorkers
    /\ defaultCtor \in BOOLEAN
    /\ workers = [k \in 1..WorkersBuilt(defaultCtor, numThreads) |-> NewWorker]
    /\ tasks = <<>>
    /\ exceptions = <<>>
    /\ stop = FALSE
    /\ cl = [c \in Clients |-> IdleClient]
    /\ nAccepted = 0
    /\ nCalls = 0
    /\ throwing = {}
    /\ executed = <<>>

\* the process has gone through std::terminate
Terminated == cl["owner"].pc = "terminated"

\* the pool object is there for its users
Alive == ~cl["owner"].inDtor

\* workers blocked in condition.wait
Blocked == {k \in 1..Len(workers) : workers[k].pc = "blocked"}

\* condition.notify_all(): every blocked worker goes to take the mutex and
\* test the predicate again
AfterNotifyAll(ws) ==
    [k \in 1..Len(ws) |-> IF ws[k].pc = "blocked" THEN [ws[k] EXCEPT !.pc = "test"]
                          ELSE ws[k]]

\* enqueue that never looks at stop
Stopped_Never(s) == FALSE

\* "if (stop)" of enqueue and of stopAndWait
Stopped(s) == s

\* a worker that leaves as soon as stop is set
MayExit_OnStop(s, q) == s

\* "if (this->stop && this->tasks.empty()) return;"
MayExit(s, q) == s /\ q = <<>>

\* enqueue(f), the part under queueMutex: a stopped pool throws
\* runtime_error("ThreadPool is stopped") to the caller, else the task goes
\* to the back of the queue.  The task is one that throws or one that
\* does not.
Enqueue(c) ==
    /\ ~Terminated
    /\ Alive
    /\ cl[c].pc = "idle"
    /\ nCalls < MaxTasks
    /\ nCalls' = nCalls + 1
    /\ IF Stopped(stop)
       THEN /\ cl' = [cl EXCEPT ![c].failed = @ + 1]
            /\ UNCHANGED <<tasks, nAccepted, throwing, executed>>
       ELSE /\ tasks' = Append(tasks, nAccepted + 1)
            /\ nAccepted' = nAccepted + 1
            /\ executed' = Append(executed, 0)
            /\ \E throws \in BOOLEAN :
                  throwing' = IF throws THEN throwing \cup {nAccepted + 1} ELSE throwing
            /\ cl' = [cl EXCEPT ![c].pc = "notify_one"]
    /\ UNCHANGED <<powVars, poolVars, minerVars, ctorVars, numThreads, defaultCtor, workers,
                   exceptions, stop>>

\* "condition.notify_one()" of enqueue, after the mutex is released
EnqueueNotify(c) ==
    /\ ~Terminated
    /\ cl[c].pc = "notify_one"
    /\ cl' = [cl EXCEPT ![c].pc = "idle"]
    /\ IF Blocked = {}
       THEN UNCHANGED workers
       ELSE \E k \in Blocked : workers' = [workers EXCEPT ![k].pc = "test"]
    /\ UNCHANGED <<powVars, poolVars, minerVars, ctorVars, numThreads, defaultCtor, tasks,
                   exceptions, stop, nAccepted, nCalls, throwing, executed>>

\* where the owner goes when its stopAndWait is over: on with its own code,
\* or, in the destructor, on to the destruction of the members
AfterStopAndWait(o, how) ==
    IF o.inDtor THEN [o EXCEPT !.pc = "members"]
    ELSE [o EXCEPT !.pc = "idle", !.saw = how]

\* stopAndWait(), the part under queueMutex: "if (stop) return; stop = true"
BeginStopAndWait(o) ==
    IF Stopped(stop)
    THEN /\ cl' = [cl EXCEPT !["owner"] = AfterStopAndWait(o, "early")]
         /\ UNCHANGED stop
    ELSE /\ cl' = [cl EXCEPT !["owner"] = [o EXCEPT !.pc = "notify_all"]]
         /\ stop' = TRUE

\* the owner calls stopAndWait(), once
CallStopAndWait ==
    /\ ~Terminated
    /\ Alive
    /\ cl["owner"].pc = "idle"
    /\ cl["owner"].saw = "none"
    /\ BeginStopAndWait(cl["owner"])
    /\ UNCHANGED <<powVars, poolVars, minerVars, ctorVars, numThreads, defaultCtor, workers,
                   tasks, exceptions, nAccepted, nCalls, throwing, executed>>

\* ~ThreadPool(): the owner destroys the pool when no other thread is inside
\* one of its functions; the destructor calls stopAndWait()
Destroy ==
    /\ ~Terminated
    /\ Alive
    /\ \A c \in Clients : cl[c].pc = "idle"
    /\ BeginStopAndWait([cl["owner"] EXCEPT !.inDtor = TRUE])
    /\ UNCHANGED <<powVars, poolVars, minerVars, ctorVars, numThreads, defaultCtor, workers,
                   tasks, exceptions, nAccepted, nCalls, throwing, executed>>

\* "condition.notify_all()" of stopAndWait
NotifyAll ==
    /\ ~Terminated
    /\ cl["owner"].pc = "notify_all"
    /\ workers' = AfterNotifyAll(workers)
    /\ cl' = [cl EXCEPT !["owner"].pc = "join"]
    /\ UNCHANGED <<powVars, poolVars, minerVars, ctorVars, numThreads, defaultCtor, tasks,
                   exceptions, stop, nAccepted, nCalls, throwing, executed>>

\* one iteration of "for (std::thread &worker : workers) worker.join()": it
\* returns when the worker has left its loop
Join(k) ==
    /\ ~Terminated
    /\ cl["owner"].pc = "join"
    /\ k \in 1..Len(workers)
    /\ \A j \in 1..(k - 1) : workers[j].joined
    /\ ~workers[k].joined
    /\ workers[k].pc = "exited"
    /\ workers' = [workers EXCEPT ![k].joined = TRUE]
    /\ UNCHANGED <<powVars, poolVars, minerVars, ctorVars, numThreads, defaultCtor, tasks,
                   exceptions, stop, cl, nAccepted, nCalls, throwing, executed>>

\* after the last join: "for (auto& e : exceptions) if (e)
\* std::rethrow_exception(e)".  An exception that leaves stopAndWait inside
\* the destructor, which is noexcept, ends the process.
Rethrow ==
    /\ ~Terminated
    /\ cl["owner"].pc = "join"
    /\ \A k \in 1..Len(workers) : workers[k].joined
    /\ cl' = [cl EXCEPT !["owner"] =
                IF exceptions = <<>> THEN AfterStopAndWait(@, "returned")
                ELSE IF @.inDtor THEN [@ EXCEPT !.pc = "terminated"]
                ELSE [@ EXCEPT !.pc = "idle", !.saw = "threw"]]
    /\ UNCHANGED <<powVars, poolVars, minerVars, ctorVars, numThreads, defaultCtor, workers,
                   tasks, exceptions, stop, nAccepted, nCalls, throwing, executed>>

\* the members are destroyed after the destructor's body: ~std::thread on a
\* thread that was not joined calls std::terminate
DestroyMembers ==
    /\ cl["owner"].pc = "members"
    /\ cl' = [cl EXCEPT !["owner"].pc =
                IF \A k \in 1..Len(workers) : workers[k].joined
                THEN "destroyed" ELSE "terminated"]
    /\ UNCHANGED <<powVars, poolVars, minerVars, ctorVars, numThreads, defaultCtor, workers,
                   tasks, exceptions, stop, nAccepted, nCalls, throwing, executed>>

\* a worker under queueMutex: "condition.wait(lock, [this] { return stop ||
\* !tasks.empty(); })" blocks when the predicate is false; else the worker
\* returns if stop is set and the queue is empty, and takes the front task
\* otherwise
WorkerTest(k) ==
    /\ ~Terminated
    /\ k \in 1..Len(workers)
    /\ workers[k].pc = "test"
    /\ IF ~(stop \/ tasks # <<>>)
       THEN /\ workers' = [workers EXCEPT ![k].pc = "blocked"]
            /\ UNCHANGED tasks
       ELSE IF MayExit(stop, tasks)
       THEN /\ workers' = [workers EXCEPT ![k].pc = "exited"]
            /\ UNCHANGED tasks
       ELSE /\ workers' = [workers EXCEPT ![k].pc = "run", ![k].task = Head(tasks)]
            /\ tasks' = Tail(tasks)
    /\ UNCHANGED <<powVars, poolVars, minerVars, ctorVars, numThreads, defaultCtor, exceptions,
                   stop, cl, nAccepted, nCalls, throwing, executed>>

\* condition.wait may wake up without a notification
WorkerSpuriousWake(k) ==
    /\ ~Terminated
    /\ k \in Blocked
    /\ workers' = [workers EXCEPT ![k].pc = "test"]
    /\ UNCHANGED <<powVars, poolVars, minerVars, ctorVars, numThreads, defaultCtor, tasks,
                   exceptions, stop, cl, nAccepted, nCalls, throwing, executed>>

\* "task()": it returns, and the worker goes round its loop, or it throws
WorkerRun(k) ==
    /\ ~Terminated
    /\ k \in 1..Len(workers)
    /\ workers[k].pc = "run"
    /\ executed' = [executed EXCEPT ![workers[k].task] = @ + 1]
    /\ workers' = [workers EXCEPT
                      ![k].pc = IF workers[k].task \in throwing THEN "catch" ELSE "test",
                      ![k].task = IF workers[k].task \in throwing THEN @ ELSE 0]
    /\ UNCHANGED <<powVars, poolVars, minerVars, ctorVars, numThreads, defaultCtor, tasks,
                   exceptions, stop, cl, nAccepted, nCalls, throwing>>

\* "catch (...)": under queueMutex the exception is stored, stop is set, all
\* waiters are notified, and the worker returns
WorkerCatch(k) ==
    /\ ~Terminated
    /\ k \in 1..Len(workers)
    /\ workers[k].pc = "catch"
    /\ exceptions' = Append(exceptions, workers[k].task)
    /\ stop' = TRUE
    /\ workers' = AfterNotifyAll([workers EXCEPT ![k].pc = "exited", ![k].task = 0])
    /\ UNCHANGED <<powVars, poolVars, minerVars, ctorVars, numThreads, defaultCtor, tasks, cl,
                   nAccepted, nCalls, throwing, executed>>

NextTp ==
    \/ \E c \in Clients : Enqueue(c) \/ EnqueueNotify(c)
    \/ CallStopAndWait
    \/ Destroy
    \/ NotifyAll
    \/ Rethrow
    \/ DestroyMembers
    \/ \E k \in 1..MaxWorkers :
          \/ Join(k)
          \/ WorkerTest(k)
          \/ WorkerSpuriousWake(k)
          \/ WorkerRun(k)
          \/ WorkerCatch(k)

SpecTp == InitTp /\ [][NextTp]_vars

\* every worker takes its next step (a wake-up without a notification is
\* owed to nobody), and a thread inside enqueue, stopAndWait or the
\* destructor goes on
FairTp ==
    /\ \A k \in 1..MaxWorkers : WF_vars(WorkerTest(k) \/ WorkerRun(k) \/ WorkerCatch(k))
    /\ \A k \in 1..MaxWorkers : WF_vars(Join(k))
    /\ \A c \in Clients : WF_vars(EnqueueNotify(c))
    /\ WF_vars(NotifyAll \/ Rethrow \/ DestroyMembers)

SpecTpFair == SpecTp /\ FairTp

\* ------------------------------------------------------------------------
\* Properties of the ThreadPool
\* ------------------------------------------------------------------------

\* how many times task i is in the queue
Queued(i) == Cardinality({j \in 1..Len(tasks) : tasks[j] = i})

\* the workers that have taken task i and not run it yet
Takers(i) == {k \in 1..Len(workers) : workers[k].pc = "run" /\ workers[k].task = i}

\* a stopAndWait of the owner has returned to its caller without throwing
StopAndWaitReturned ==
    \/ cl["owner"].saw \in {"returned", "early"}
    \/ cl["owner"].pc \in {"members", "destroyed"}

\* C30: in a pool built with numThreads >= 1 workers in which no task
\* throws, every task that enqueue accepted has been run exactly once when
\* stopAndWait returns, and the queue is empty; at every moment a task is in
\* one place only (in the queue once, taken by one worker, or run once), so
\* no task is run twice or by two workers; and a worker leaves its loop,
\* other than through its catch block, only on finding stop set and the
\* queue empty.
C30_DrainOnStop ==
    /\ [](\A i \in 1..nAccepted :
              Queued(i) + Cardinality(Takers(i)) + executed[i] = 1)
    /\ []((StopAndWaitReturned /\ Len(workers) >= 1 /\ throwing = {}) =>
              /\ tasks = <<>>
              /\ \A i \in 1..nAccepted : executed[i] = 1
              /\ \A k \in 1..Len(workers) : workers[k].pc = "exited")
    /\ [][\A k \in 1..Len(workers) :
              (workers[k].pc \notin {"exited", "catch"} /\ workers'[k].pc = "exited")
                  => (stop /\ tasks = <<>>)]_vars

\* stopAndWait has returned on a pool of two workers that was given two
\* tasks, neither of which throws, both run
C30_Witness ==
    /\ cl["owner"].saw = "returned"
    /\ Len(workers) = 2
    /\ nAccepted = 2
    /\ throwing = {}
    /\ executed = <<1, 1>>
    /\ cl["producer"].failed = 0
    /\ nCalls = 2

\* every worker thread has been joined
AllWorkersJoined == \A k \in 1..Len(workers) : workers[k].joined

\* C31: once a task has thrown and its exception is stored, the owner's
\* stopAndWait does not come back without having joined every worker and
\* thrown the stored exception to its caller; the destructor's stopAndWait
\* hands the exception on likewise instead of ending the process; and the
\* members of the pool are destroyed with every worker joined.
C31_ExceptionPropagation ==
    /\ (exceptions # <<>> /\ cl["owner"].saw # "none") =>
          (cl["owner"].saw = "threw" /\ AllWorkersJoined)
    /\ cl["owner"].pc \in {"members", "destroyed"} => AllWorkersJoined
    /\ ~Terminated

\* C32: from the moment stop is set, by stopAndWait or by the catch block
\* of a worker, no step accepts a task: the queue only loses tasks to the
\* workers, the count of accepted tasks stands still, and every enqueue
\* call made from then on fails with the error and leaves the queue as it
\* was, in every interleaving of enqueue with stopAndWait.
C32_NoEnqueueAfterStop ==
    [][stop =>
          /\ nAccepted' = nAccepted
          /\ (tasks' = tasks \/ tasks' = Tail(tasks))
          /\ nCalls' # nCalls =>
                /\ tasks' = tasks
                /\ \E c \in Clients :
                      /\ cl'[c].failed = cl[c].failed + 1
                      /\ cl'[c].pc = "idle"]_vars

\* an enqueue of the second thread has failed while the owner's stopAndWait,
\* which found one task accepted, is still joining the workers
C32_Witness ==
    /\ stop
    /\ cl["owner"].pc = "join"
    /\ cl["producer"].failed = 1
    /\ exceptions = <<>>
    /\ nAccepted = 1

\* C33: a pool built by ThreadPool() has as many workers as
\* hardware_concurrency() says, and, when that is at least one and no task
\* throws, every task it accepted has been run when stopAndWait returns.
C33_DefaultCtorRunsTasks ==
    /\ defaultCtor => Len(workers) = numThreads
    /\ (defaultCtor /\ numThreads >= 1 /\ StopAndWaitReturned /\ throwing = {}) =>
          /\ tasks = <<>>
          /\ \A i \in 1..nAccepted : executed[i] = 1

====
